---- MODULE Spec2Model ----
(***************************************************************************)
(* Model of the job matching engine (src/KLH/src): the four scorers,       *)
(* MatchResult, and MatchingEngine's pair, one-to-many and all-pairs       *)
(* operations.                                                             *)
(*                                                                         *)
(* Numbers.  Python floats are modelled in fixed point: every score is an  *)
(* integer number of 1/Unit percent points (Unit = 10000), so 100% is      *)
(* 1000000.  Weights are integers in hundredths.  Divisions truncate.      *)
(* Only get_match_statistics, whose mean depends on how each sum is       *)
(* rounded, is modelled on exact doubles (SpecStatistics).                 *)
(*                                                                         *)
(* Text.  TLC has no character operations, so str.strip, str.upper,        *)
(* str.lower, str.split(','), len and the substring test are tables over   *)
(* the texts the model uses; a text that is not a key of a table is left   *)
(* unchanged by that operation (it is already stripped / upper case).      *)
(***************************************************************************)
EXTENDS Integers, Sequences, FiniteSets, TLC

Unit == 100 * 100

Pct(n) == n * Unit

Min(a, b) == IF a <= b THEN a ELSE b

Max(a, b) == IF a >= b THEN a ELSE b

\* floor(a * Unit / b) for 0 <= a, 0 < b, by long division in two steps of 100
\* (keeps every intermediate product inside 32 bits).
Ratio(a, b) ==
    LET q  == a \div b
        r  == a % b
        d1 == (r * 100) \div b
        r1 == (r * 100) % b
        d2 == (r1 * 100) \div b
    IN  q * Unit + d1 * 100 + d2

\* floor(sqrt(x)) by bisection on lo..hi, lo*lo <= x < (hi+1)*(hi+1)
RECURSIVE ISqrtIn(_, _, _)
ISqrtIn(lo, hi, x) ==
    IF lo >= hi THEN lo
    ELSE LET mid == (lo + hi + 1) \div 2
         IN  IF mid * mid <= x THEN ISqrtIn(mid, hi, x) ELSE ISqrtIn(lo, mid - 1, x)

ISqrt(x) == ISqrtIn(0, 40000, x)

Lookup(table, key, default) == IF key \in DOMAIN table THEN table[key] ELSE default

RECURSIVE SumSeq(_)
SumSeq(s) == IF s = <<>> THEN 0 ELSE Head(s) + SumSeq(Tail(s))

Range(s) == {s[i] : i \in DOMAIN s}

(***************************************************************************)
(* str operations on the model's texts                                     *)
(***************************************************************************)

\* str.strip(): texts with leading or trailing white space
StripTable ==
    " ml " :> "ml" @@ " ML " :> "ML" @@ " Python" :> "Python" @@ " PYTHON" :> "PYTHON"
    @@ "  " :> "" @@ " CA" :> "CA" @@ " NY" :> "NY" @@ " NJ" :> "NJ" @@ " TX" :> "TX"
    @@ " MA" :> "MA" @@ " WA" :> "WA" @@ " " :> "" @@ " master's " :> "master's"
    @@ " Master's " :> "Master's"

strip(s) == Lookup(StripTable, s, s)

\* str.upper(): texts with a lower case letter
UpperTable ==
    "Python" :> "PYTHON" @@ " Python" :> " PYTHON" @@ "ml" :> "ML" @@ " ml " :> " ML "
    @@ "Machine Learning" :> "MACHINE LEARNING" @@ "Deep Learning" :> "DEEP LEARNING"
    @@ "TensorFlow" :> "TENSORFLOW" @@ "Java" :> "JAVA" @@ "Spring Boot" :> "SPRING BOOT"
    @@ "Word" :> "WORD" @@ "c++" :> "C++" @@ "Mobile Development" :> "MOBILE DEVELOPMENT"
    @@ "Flutter" :> "FLUTTER" @@ "js" :> "JS"
    @@ "San Francisco, CA" :> "SAN FRANCISCO, CA" @@ "Palo Alto, CA" :> "PALO ALTO, CA"
    @@ "Los Angeles, CA" :> "LOS ANGELES, CA" @@ "New York, NY" :> "NEW YORK, NY"
    @@ "Jersey City, NJ" :> "JERSEY CITY, NJ" @@ "Austin, TX" :> "AUSTIN, TX"
    @@ "Boston, MA" :> "BOSTON, MA" @@ "Seattle" :> "SEATTLE" @@ "ca" :> "CA"
    @@ "Remote" :> "REMOTE" @@ "remote" :> "REMOTE" @@ "Remote (US)" :> "REMOTE (US)"
    @@ "Austin, TX or Remote" :> "AUSTIN, TX OR REMOTE" @@ "California" :> "CALIFORNIA"

upper(s) == Lookup(UpperTable, s, s)

\* str.lower(): texts with an upper case letter
LowerTable ==
    "High School" :> "high school" @@ "Associate" :> "associate"
    @@ "Bachelor's" :> "bachelor's" @@ "Bachelors" :> "bachelors"
    @@ "Master's" :> "master's" @@ " Master's " :> " master's " @@ "Masters" :> "masters"
    @@ "PhD" :> "phd" @@ "PHD" :> "phd" @@ "Doctorate" :> "doctorate" @@ "MBA" :> "mba"
    @@ "BACHELOR'S" :> "bachelor's" @@ "Diploma" :> "diploma"

lower(s) == Lookup(LowerTable, s, s)

\* 'REMOTE' in s
HasREMOTE(s) == s \in {"REMOTE", "REMOTE (US)", "AUSTIN, TX OR REMOTE"}

\* ',' in s, and s.split(',')
SplitTable ==
    "SAN FRANCISCO, CA" :> <<"SAN FRANCISCO", " CA">>
    @@ "PALO ALTO, CA" :> <<"PALO ALTO", " CA">>
    @@ "LOS ANGELES, CA" :> <<"LOS ANGELES", " CA">>
    @@ "NEW YORK, NY" :> <<"NEW YORK", " NY">>
    @@ "JERSEY CITY, NJ" :> <<"JERSEY CITY", " NJ">>
    @@ "AUSTIN, TX" :> <<"AUSTIN", " TX">>
    @@ "BOSTON, MA" :> <<"BOSTON", " MA">>
    @@ "AUSTIN, TX OR REMOTE" :> <<"AUSTIN", " TX OR REMOTE">>

HasComma(s) == s \in DOMAIN SplitTable

split(s) == Lookup(SplitTable, s, <<s>>)

\* len(s) == 2
LenIs2(s) == s \in {"CA", "NY", "NJ", "TX", "MA", "WA", "  "}

(***************************************************************************)
(* ExperienceMatcher                                                       *)
(***************************************************************************)

EDUCATION_LEVELS ==
    "high school" :> 1 @@ "associate" :> 2 @@ "bachelor's" :> 3 @@ "bachelors" :> 3
    @@ "master's" :> 4 @@ "masters" :> 4 @@ "phd" :> 5 @@ "doctorate" :> 5

\* the bonus for excess years added without the cap at 100
ExperienceBonusUncapped(candidate_experience, min_experience_required) ==
    IF min_experience_required = 0 THEN Pct(100)
    ELSE IF candidate_experience >= min_experience_required
    THEN Pct(100) + Min(candidate_experience - min_experience_required, 2) * 25 * (Unit \div 10)
    ELSE Max(Pct(30), Pct(100) - (min_experience_required - candidate_experience) * Pct(15))

\* a scorer that takes 5 points off per year above the requirement
ExperienceOverqualified(candidate_experience, min_experience_required) ==
    IF min_experience_required = 0 THEN Pct(100)
    ELSE IF candidate_experience >= min_experience_required
    THEN Pct(100) - Min(candidate_experience - min_experience_required, 2) * Pct(5)
    ELSE Max(Pct(30), Pct(100) - (min_experience_required - candidate_experience) * Pct(15))

calculate_experience_match(candidate_experience, min_experience_required) ==
    IF min_experience_required = 0 THEN Pct(100)
    ELSE IF candidate_experience >= min_experience_required
    THEN LET excess == candidate_experience - min_experience_required
             bonus  == Min(excess, 2) * 25 * (Unit \div 10)
         IN  Min(Pct(100), Pct(100) + bonus)
    ELSE LET deficit == min_experience_required - candidate_experience
             match   == Pct(100) - deficit * Pct(15)
         IN  Max(Pct(30), match)

\* the table consulted with the text as written, letter case kept
EducationLevelCaseKept(education) ==
    IF education = "" THEN 3
    ELSE Lookup(EDUCATION_LEVELS, strip(education), 3)

get_education_level(education) ==
    IF education = "" THEN 3
    ELSE Lookup(EDUCATION_LEVELS, strip(lower(education)), 3)

calculate_education_match(candidate_education, education_required) ==
    LET candidate_level == get_education_level(candidate_education)
        required_level  == get_education_level(education_required)
    IN  IF candidate_level >= required_level THEN Pct(100)
        ELSE LET deficit == required_level - candidate_level
                 match   == Pct(100) - deficit * Pct(25)
             IN  Max(Pct(50), match)

\* the two parts blended with their weights exchanged
CombinedExchanged(candidate_experience, min_experience_required, candidate_education, education_required) ==
    (calculate_experience_match(candidate_experience, min_experience_required) * 3
     + calculate_education_match(candidate_education, education_required) * 7) \div 10

calculate_combined_experience_match(candidate_experience, min_experience_required, candidate_education, education_required) ==
    LET exp_match == calculate_experience_match(candidate_experience, min_experience_required)
        edu_match == calculate_education_match(candidate_education, education_required)
    IN  (exp_match * 7 + edu_match * 3) \div 10

(***************************************************************************)
(* SalaryMatcher                                                           *)
(***************************************************************************)

\* percentage points lost for a distance diff from a range with the given sum
SalaryLoss(diff, range_sum, cap) == Min(Ratio(200 * diff, range_sum), Pct(cap))

\* an expectation of 0 scored like any other figure under the range
SalaryZeroExpectationScored(expected_salary, salary_min, salary_max) ==
    IF salary_min = 0 /\ salary_max = 0 THEN Pct(100)
    ELSE IF salary_min <= expected_salary /\ expected_salary <= salary_max THEN Pct(100)
    ELSE IF expected_salary < salary_min
    THEN Max(Pct(30), Pct(100) - SalaryLoss(salary_min - expected_salary, salary_min + salary_max, 30))
    ELSE Max(Pct(30), Pct(100) - SalaryLoss(expected_salary - salary_max, salary_min + salary_max, 40))

\* the two caps exchanged: up to 40 lost below the range, up to 30 above
SalaryCapsExchanged(expected_salary, salary_min, salary_max) ==
    IF salary_min = 0 /\ salary_max = 0 THEN Pct(100)
    ELSE IF expected_salary = 0 THEN Pct(100)
    ELSE IF salary_min <= expected_salary /\ expected_salary <= salary_max THEN Pct(100)
    ELSE IF expected_salary < salary_min
    THEN Max(Pct(30), Pct(100) - SalaryLoss(salary_min - expected_salary, salary_min + salary_max, 40))
    ELSE Max(Pct(30), Pct(100) - SalaryLoss(expected_salary - salary_max, salary_min + salary_max, 30))

\* one cap of 30 on either side of the range
SalaryOneCap(expected_salary, salary_min, salary_max) ==
    IF salary_min = 0 /\ salary_max = 0 THEN Pct(100)
    ELSE IF expected_salary = 0 THEN Pct(100)
    ELSE IF salary_min <= expected_salary /\ expected_salary <= salary_max THEN Pct(100)
    ELSE IF expected_salary < salary_min
    THEN Max(Pct(30), Pct(100) - SalaryLoss(salary_min - expected_salary, salary_min + salary_max, 30))
    ELSE Max(Pct(30), Pct(100) - SalaryLoss(expected_salary - salary_max, salary_min + salary_max, 30))

\* the loss above the range limited by the final floor of 30 only
SalaryAboveUncapped(expected_salary, salary_min, salary_max) ==
    IF salary_min = 0 /\ salary_max = 0 THEN Pct(100)
    ELSE IF expected_salary = 0 THEN Pct(100)
    ELSE IF salary_min <= expected_salary /\ expected_salary <= salary_max THEN Pct(100)
    ELSE IF expected_salary < salary_min
    THEN Max(Pct(30), Pct(100) - SalaryLoss(salary_min - expected_salary, salary_min + salary_max, 30))
    ELSE Max(Pct(30), Pct(100) - SalaryLoss(expected_salary - salary_max, salary_min + salary_max, 70))

\* salary_mid = (salary_min + salary_max) / 2, so diff / salary_mid * 100 is
\* 200 * diff / (salary_min + salary_max) percent points.
calculate_salary_match(expected_salary, salary_min, salary_max) ==
    IF salary_min = 0 /\ salary_max = 0 THEN Pct(100)
    ELSE IF expected_salary = 0 THEN Pct(100)
    ELSE IF salary_min <= expected_salary /\ expected_salary <= salary_max THEN Pct(100)
    ELSE LET match ==
                 IF expected_salary < salary_min
                 THEN LET diff     == salary_min - expected_salary
                          pct_diff == Ratio(200 * diff, salary_min + salary_max)
                      IN  Pct(100) - Min(pct_diff, Pct(30))
                 ELSE LET diff     == expected_salary - salary_max
                          pct_diff == Ratio(200 * diff, salary_min + salary_max)
                      IN  Pct(100) - Min(pct_diff, Pct(40))
         IN  Max(Pct(30), match)

(***************************************************************************)
(* LocationMatcher                                                         *)
(***************************************************************************)

STATES ==
    "AL" :> "ALABAMA" @@ "AK" :> "ALASKA" @@ "AZ" :> "ARIZONA" @@ "AR" :> "ARKANSAS"
    @@ "CA" :> "CALIFORNIA" @@ "CO" :> "COLORADO" @@ "CT" :> "CONNECTICUT" @@ "DE" :> "DELAWARE"
    @@ "FL" :> "FLORIDA" @@ "GA" :> "GEORGIA" @@ "HI" :> "HAWAII" @@ "ID" :> "IDAHO"
    @@ "IL" :> "ILLINOIS" @@ "IN" :> "INDIANA" @@ "IA" :> "IOWA" @@ "KS" :> "KANSAS"
    @@ "KY" :> "KENTUCKY" @@ "LA" :> "LOUISIANA" @@ "ME" :> "MAINE" @@ "MD" :> "MARYLAND"
    @@ "MA" :> "MASSACHUSETTS" @@ "MI" :> "MICHIGAN" @@ "MN" :> "MINNESOTA" @@ "MS" :> "MISSISSIPPI"
    @@ "MO" :> "MISSOURI" @@ "MT" :> "MONTANA" @@ "NE" :> "NEBRASKA" @@ "NV" :> "NEVADA"
    @@ "NH" :> "NEW HAMPSHIRE" @@ "NJ" :> "NEW JERSEY" @@ "NM" :> "NEW MEXICO" @@ "NY" :> "NEW YORK"
    @@ "NC" :> "NORTH CAROLINA" @@ "ND" :> "NORTH DAKOTA" @@ "OH" :> "OHIO" @@ "OK" :> "OKLAHOMA"
    @@ "OR" :> "OREGON" @@ "PA" :> "PENNSYLVANIA" @@ "RI" :> "RHODE ISLAND" @@ "SC" :> "SOUTH CAROLINA"
    @@ "SD" :> "SOUTH DAKOTA" @@ "TN" :> "TENNESSEE" @@ "TX" :> "TEXAS" @@ "UT" :> "UTAH"
    @@ "VT" :> "VERMONT" @@ "VA" :> "VIRGINIA" @@ "WA" :> "WASHINGTON" @@ "WV" :> "WEST VIRGINIA"
    @@ "WI" :> "WISCONSIN" @@ "WY" :> "WYOMING" @@ "DC" :> "DISTRICT OF COLUMBIA"

TECH_HUBS ==
    "SAN FRANCISCO" :> "BAY AREA" @@ "PALO ALTO" :> "BAY AREA" @@ "MOUNTAIN VIEW" :> "BAY AREA"
    @@ "SUNNYVALE" :> "BAY AREA" @@ "SAN JOSE" :> "BAY AREA" @@ "OAKLAND" :> "BAY AREA"
    @@ "BERKELEY" :> "BAY AREA" @@ "NEW YORK" :> "NEW YORK METRO" @@ "BROOKLYN" :> "NEW YORK METRO"
    @@ "JERSEY CITY" :> "NEW YORK METRO" @@ "MANHATTAN" :> "NEW YORK METRO" @@ "LOS ANGELES" :> "LOS ANGELES"
    @@ "SEATTLE" :> "SEATTLE" @@ "AUSTIN" :> "AUSTIN" @@ "BOSTON" :> "BOSTON"
    @@ "CHICAGO" :> "CHICAGO" @@ "DENVER" :> "DENVER" @@ "MIAMI" :> "MIAMI"

\* the text tested for emptiness only before it is trimmed, and a text of
\* two characters taken for a state before it is trimmed
ParseUntrimmedLength(location) ==
    IF location = ""
    THEN [city |-> "", state |-> "", is_remote |-> FALSE, region |-> ""]
    ELSE LET loc == upper(strip(location))
         IN  IF HasREMOTE(loc)
             THEN [city |-> "", state |-> "", is_remote |-> TRUE, region |-> "REMOTE"]
             ELSE IF ~HasComma(loc) /\ LenIs2(upper(location))
             THEN [city |-> "", state |-> upper(location), is_remote |-> FALSE,
                   region |-> upper(location)]
             ELSE LET parts  == split(loc)
                      city   == IF HasComma(loc) THEN strip(parts[1]) ELSE loc
                      state0 == IF HasComma(loc)
                                THEN (IF Len(parts) > 1 THEN strip(parts[2]) ELSE "")
                                ELSE ""
                      state  == Lookup(STATES, state0, state0)
                      region == Lookup(TECH_HUBS, city, IF state # "" THEN state ELSE city)
                  IN  [city |-> city, state |-> state, is_remote |-> FALSE,
                       region |-> region]

parse_location(location) ==
    IF location = ""
    THEN [city |-> "", state |-> "", is_remote |-> FALSE, region |-> ""]
    ELSE LET loc == upper(strip(location))
         IN  IF HasREMOTE(loc)
             THEN [city |-> "", state |-> "", is_remote |-> TRUE, region |-> "REMOTE"]
             ELSE LET parts  == split(loc)
                      city   == IF HasComma(loc) THEN strip(parts[1])
                                ELSE IF LenIs2(loc) THEN "" ELSE loc
                      state0 == IF HasComma(loc)
                                THEN (IF Len(parts) > 1 THEN strip(parts[2]) ELSE "")
                                ELSE IF LenIs2(loc) THEN loc ELSE ""
                      state  == Lookup(STATES, state0, state0)
                      region == Lookup(TECH_HUBS, city, IF state # "" THEN state ELSE city)
                  IN  [city |-> city, state |-> state, is_remote |-> FALSE,
                       region |-> region]

\* the region compared before the state
LocationRegionBeforeState(candidate_location, job_location, is_remote_job) ==
    IF is_remote_job \/ HasREMOTE(upper(job_location))
    THEN (IF HasREMOTE(upper(candidate_location)) THEN Pct(100) ELSE Pct(80))
    ELSE LET candidate_loc == parse_location(candidate_location)
             job_loc       == parse_location(job_location)
         IN  IF candidate_loc.is_remote THEN Pct(60)
             ELSE IF candidate_loc.city # "" /\ job_loc.city # ""
                     /\ candidate_loc.city = job_loc.city THEN Pct(100)
             ELSE IF candidate_loc.region # "" /\ job_loc.region # ""
                     /\ candidate_loc.region = job_loc.region THEN Pct(70)
             ELSE IF candidate_loc.state # "" /\ job_loc.state # ""
                     /\ candidate_loc.state = job_loc.state THEN Pct(75)
             ELSE Pct(30)

\* the remote job looked at only after the comparison of places
LocationPlacesFirst(candidate_location, job_location, is_remote_job) ==
    LET candidate_loc == parse_location(candidate_location)
        job_loc       == parse_location(job_location)
    IN  IF candidate_loc.city # "" /\ job_loc.city # ""
           /\ candidate_loc.city = job_loc.city THEN Pct(100)
        ELSE IF candidate_loc.state # "" /\ job_loc.state # ""
                /\ candidate_loc.state = job_loc.state THEN Pct(75)
        ELSE IF is_remote_job \/ HasREMOTE(upper(job_location))
        THEN (IF HasREMOTE(upper(candidate_location)) THEN Pct(100) ELSE Pct(80))
        ELSE IF candidate_loc.is_remote THEN Pct(60)
        ELSE IF candidate_loc.region # "" /\ job_loc.region # ""
                /\ candidate_loc.region = job_loc.region THEN Pct(70)
        ELSE Pct(30)

calculate_location_match(candidate_location, job_location, is_remote_job) ==
    IF is_remote_job \/ HasREMOTE(upper(job_location))
    THEN (IF HasREMOTE(upper(candidate_location)) THEN Pct(100) ELSE Pct(80))
    ELSE LET candidate_loc == parse_location(candidate_location)
             job_loc       == parse_location(job_location)
         IN  IF candidate_loc.is_remote THEN Pct(60)
             ELSE IF candidate_loc.city # "" /\ job_loc.city # ""
                     /\ candidate_loc.city = job_loc.city THEN Pct(100)
             ELSE IF candidate_loc.state # "" /\ job_loc.state # ""
                     /\ candidate_loc.state = job_loc.state THEN Pct(75)
             ELSE IF candidate_loc.region # "" /\ job_loc.region # ""
                     /\ candidate_loc.region = job_loc.region THEN Pct(70)
             ELSE Pct(30)

get_location_details(candidate_location, job_location, is_remote_job) ==
    LET candidate_loc == parse_location(candidate_location)
        job_loc       == parse_location(job_location)
        match_score   == calculate_location_match(candidate_location, job_location, is_remote_job)
        match_type    == IF is_remote_job \/ HasREMOTE(upper(job_location)) THEN "Remote"
                         ELSE IF candidate_loc.city = job_loc.city THEN "Same City"
                         ELSE IF candidate_loc.state = job_loc.state THEN "Same State"
                         ELSE IF candidate_loc.region = job_loc.region THEN "Same Region"
                         ELSE "Different Location"
    IN  [match_score |-> match_score, match_type |-> match_type,
         candidate_location |-> candidate_loc, job_location |-> job_loc]

(***************************************************************************)
(* SkillMatcher                                                            *)
(***************************************************************************)

SKILL_ALIASES ==
    "ML" :> "MACHINE LEARNING" @@ "DL" :> "DEEP LEARNING" @@ "JS" :> "JAVASCRIPT"
    @@ "TS" :> "TYPESCRIPT" @@ "AWS" :> "AMAZON WEB SERVICES" @@ "GCP" :> "GOOGLE CLOUD PLATFORM"
    @@ "AZURE" :> "MICROSOFT AZURE" @@ "REACT NATIVE" :> "MOBILE DEVELOPMENT" @@ "FLUTTER" :> "MOBILE DEVELOPMENT"
    @@ "XAMARIN" :> "MOBILE DEVELOPMENT" @@ "POSTGRES" :> "POSTGRESQL" @@ "MYSQL" :> "MYSQL"
    @@ "REDIS" :> "REDIS" @@ "MONGO" :> "MONGODB" @@ "REST" :> "REST API"
    @@ "GRAPHQL" :> "GRAPHQL" @@ "CI/CD" :> "CI CD" @@ "DATA SCIENCE" :> "DATA SCIENCE"
    @@ "DATA ANALYTICS" :> "DATA ANALYSIS" @@ "AI" :> "ARTIFICIAL INTELLIGENCE"

\* normalisation without the alias table
NormalizeNoAlias(skill) == upper(strip(skill))

\* the alias table consulted before the text is upper-cased
NormalizeAliasBeforeUpper(skill) == Lookup(SKILL_ALIASES, strip(skill), upper(strip(skill)))

normalize_skill(skill) ==
    LET skill_upper == upper(strip(skill))
    IN  Lookup(SKILL_ALIASES, skill_upper, skill_upper)

(***************************************************************************)
(* self.vectorizer: TfidfVectorizer(lowercase=True,                        *)
(* token_pattern=r'(?u)\b\w+\b', ngram_range=(1, 2)).  Its fitted state    *)
(* (vocabulary_, idf_) lives in the SkillMatcher and is shared by every    *)
(* call; fit writes it, transform reads it.                                *)
(***************************************************************************)

\* lowercase + token_pattern: the word tokens of a normalized skill
TokenTable ==
    "PYTHON" :> <<"python">> @@ "SQL" :> <<"sql">> @@ "JAVA" :> <<"java">>
    @@ "WORD" :> <<"word">> @@ "TENSORFLOW" :> <<"tensorflow">>
    @@ "MACHINE LEARNING" :> <<"machine", "learning">>
    @@ "DEEP LEARNING" :> <<"deep", "learning">>
    @@ "SPRING BOOT" :> <<"spring", "boot">>
    @@ "MOBILE DEVELOPMENT" :> <<"mobile", "development">>
    @@ "JAVASCRIPT" :> <<"javascript">>
    @@ "C++" :> <<"c">> @@ "++" :> <<>> @@ "" :> <<>> @@ "ML" :> <<"ml">> @@ "#" :> <<>>

\* every token above, in str order (the order of sorted(vocabulary))
TokenOrder ==
    <<"boot", "c", "deep", "development", "java", "javascript", "learning", "machine",
      "ml", "mobile", "python", "spring", "sql", "tensorflow", "word">>

TokenRank(t) == CHOOSE i \in DOMAIN TokenOrder : TokenOrder[i] = t

\* _word_ngrams: the unigrams, then the bigrams, of a document
Analyze(doc) ==
    LET t == TokenTable[doc]
    IN  [i \in 1..Len(t) |-> <<t[i]>>] \o [i \in 1..(Len(t) - 1) |-> <<t[i], t[i + 1]>>]

\* str order of two n-grams ("a" < "a b" < "b")
FeatureLess(f, g) ==
    \/ TokenRank(f[1]) < TokenRank(g[1])
    \/ /\ f[1] = g[1]
       /\ \/ Len(f) < Len(g)
          \/ Len(f) = 2 /\ Len(g) = 2 /\ TokenRank(f[2]) < TokenRank(g[2])

RECURSIVE SortFeatures(_)
SortFeatures(fs) ==
    IF fs = {} THEN <<>>
    ELSE LET m == CHOOSE f \in fs : \A g \in fs \ {f} : FeatureLess(f, g)
         IN  <<m>> \o SortFeatures(fs \ {m})

TermCount(f, doc) == Cardinality({i \in DOMAIN Analyze(doc) : Analyze(doc)[i] = f})

\* CountVectorizer.fit_transform: the sorted vocabulary of the corpus and the
\* term-count matrix X over it; an empty vocabulary raises ValueError.
CountFitTransform(corpus) ==
    LET vocabulary == SortFeatures(UNION {Range(Analyze(corpus[d])) : d \in DOMAIN corpus})
    IN  [raised     |-> vocabulary = <<>>,
         vocabulary |-> vocabulary,
         X          |-> [d \in DOMAIN corpus |->
                            [i \in DOMAIN vocabulary |-> TermCount(vocabulary[i], corpus[d])]]]

\* 1000 * ln(k), k = 1..14
Ln1000 == <<0, 693, 1099, 1386, 1609, 1792, 1946, 2079, 2197, 2303, 2398, 2485, 2565, 2639>>

\* smooth idf, ln((1 + n) / (1 + df)) + 1, in tenths
Idf(n, df) == (Ln1000[n + 1] - Ln1000[df + 1] + 1000) \div 100

Unfitted == [fitted |-> FALSE, vocabulary |-> <<>>, idf |-> <<>>]

\* a fit that keeps the vocabulary and idf of a vectorizer already fitted
TfidfFitOnce(old, vocabulary, X) ==
    IF old.fitted THEN old
    ELSE [fitted     |-> TRUE,
          vocabulary |-> vocabulary,
          idf        |-> [i \in DOMAIN vocabulary |->
                             Idf(Len(X), Cardinality({d \in DOMAIN X : X[d][i] > 0}))]]

\* fit: replaces whatever the vectorizer held by the vocabulary and idf of X
TfidfFit(old, vocabulary, X) ==
    [fitted     |-> TRUE,
     vocabulary |-> vocabulary,
     idf        |-> [i \in DOMAIN vocabulary |->
                        Idf(Len(X), Cardinality({d \in DOMAIN X : X[d][i] > 0}))]]

\* transform: X.data *= idf_[X.indices], by column index; raises when the
\* vectorizer is not fitted or was fitted on another number of features.
TfidfTransform(vec, X) ==
    LET ncols == IF X = <<>> THEN 0 ELSE Len(X[1])
    IN  IF ~vec.fitted \/ Len(vec.idf) # ncols
        THEN [raised |-> TRUE, rows |-> <<>>]
        ELSE [raised |-> FALSE,
              rows   |-> [d \in DOMAIN X |-> [i \in 1..ncols |-> X[d][i] * vec.idf[i]]]]

Dot(a, b) == SumSeq([i \in DOMAIN a |-> a[i] * b[i]])

\* cosine of two rows in 1/Unit (the l2 normalization of transform and of
\* cosine_similarity; an all-zero row has similarity 0 to everything)
Cosine(a, b) ==
    LET na2 == Dot(a, a)
        nb2 == Dot(b, b)
    IN  IF na2 = 0 \/ nb2 = 0 THEN 0 ELSE (Dot(a, b) * Unit) \div ISqrt(na2 * nb2)

RECURSIVE MaxSeq(_)
MaxSeq(s) == IF Len(s) = 1 THEN s[1] ELSE Max(Head(s), MaxSeq(Tail(s)))

\* the part of calculate_skill_match before the vectorizer is used
SkillExact(candidate_skills, job_skills) ==
    LET normalized_candidate == [i \in DOMAIN candidate_skills |-> normalize_skill(candidate_skills[i])]
        normalized_job       == [i \in DOMAIN job_skills |-> normalize_skill(job_skills[i])]
        matched == Range(normalized_candidate) \cap Range(normalized_job)
        missing == Range(normalized_job) \ Range(normalized_candidate)
    IN  [normalized_candidate |-> normalized_candidate,
         normalized_job       |-> normalized_job,
         matched              |-> matched,
         missing              |-> missing,
         exact_match_pct      |-> IF Len(normalized_job) = 0 THEN Pct(100)
                                  ELSE Ratio(100 * Cardinality(matched), Len(normalized_job))]

\* a failed similarity computation counted as no match at all
SkillFinalZeroOnFailure(e, tr) ==
    IF tr.raised THEN 0
    ELSE LET nc == Len(e.normalized_candidate)
             nj == Len(e.normalized_job)
             best_matches == [j \in 1..nj |->
                                 MaxSeq([i \in 1..nc |-> Cosine(tr.rows[i], tr.rows[nc + j])])]
             partial_match_pct == (SumSeq(best_matches) * 100) \div nj
         IN  (e.exact_match_pct * 7 + partial_match_pct * 3) \div 10

\* the blend with the two weights exchanged: 0.3 exact, 0.7 partial
SkillFinalSwapped(e, tr) ==
    IF tr.raised THEN e.exact_match_pct
    ELSE LET nc == Len(e.normalized_candidate)
             nj == Len(e.normalized_job)
             best_matches == [j \in 1..nj |->
                                 MaxSeq([i \in 1..nc |-> Cosine(tr.rows[i], tr.rows[nc + j])])]
             partial_match_pct == (SumSeq(best_matches) * 100) \div nj
         IN  (e.exact_match_pct * 3 + partial_match_pct * 7) \div 10

\* similarities.max(axis=0), np.mean, and the 0.7 / 0.3 blend; the except
\* branch when the transform raised
SkillFinal(e, tr) ==
    IF tr.raised THEN e.exact_match_pct
    ELSE LET nc == Len(e.normalized_candidate)
             nj == Len(e.normalized_job)
             best_matches == [j \in 1..nj |->
                                 MaxSeq([i \in 1..nc |-> Cosine(tr.rows[i], tr.rows[nc + j])])]
             partial_match_pct == (SumSeq(best_matches) * 100) \div nj
         IN  (e.exact_match_pct * 7 + partial_match_pct * 3) \div 10

\* calculate_skill_match without the early return for an empty requirement
\* list: nothing required counts as nothing matched
SkillMatchEmptyIsZero(vec, candidate_skills, job_skills) ==
    LET e == SkillExact(candidate_skills, job_skills)
    IN  IF Len(e.normalized_job) = 0 \/ Len(e.normalized_candidate) = 0
        THEN [score |-> IF Len(e.normalized_job) = 0 THEN 0 ELSE Min(Pct(100), e.exact_match_pct),
              matched |-> e.matched, missing |-> e.missing, vec |-> vec]
        ELSE LET cv   == CountFitTransform(e.normalized_candidate \o e.normalized_job)
                 vec1 == IF cv.raised THEN vec ELSE TfidfFit(vec, cv.vocabulary, cv.X)
                 tr   == IF cv.raised THEN [raised |-> TRUE, rows |-> <<>>]
                         ELSE TfidfTransform(vec1, cv.X)
             IN  [score |-> Min(Pct(100), SkillFinal(e, tr)), matched |-> e.matched,
                  missing |-> e.missing, vec |-> vec1]

\* calculate_skill_match on a SkillMatcher whose vectorizer is in state vec:
\* the score, the matched and missing skills, and the vectorizer afterwards
calculate_skill_match(vec, candidate_skills, job_skills) ==
    LET e == SkillExact(candidate_skills, job_skills)
    IN  IF Len(e.normalized_job) = 0
        THEN [score |-> Pct(100), matched |-> e.matched, missing |-> e.missing, vec |-> vec]
        ELSE IF Len(e.normalized_candidate) = 0
        THEN [score |-> Min(Pct(100), e.exact_match_pct), matched |-> e.matched,
              missing |-> e.missing, vec |-> vec]
        ELSE LET cv   == CountFitTransform(e.normalized_candidate \o e.normalized_job)
                 vec1 == IF cv.raised THEN vec ELSE TfidfFit(vec, cv.vocabulary, cv.X)
                 tr   == IF cv.raised THEN [raised |-> TRUE, rows |-> <<>>]
                         ELSE TfidfTransform(vec1, cv.X)
             IN  [score |-> Min(Pct(100), SkillFinal(e, tr)), matched |-> e.matched,
                  missing |-> e.missing, vec |-> vec1]

(***************************************************************************)
(* Candidate, Job, MatchResult                                             *)
(***************************************************************************)

\* Candidate(...) followed by __post_init__
Candidate(candidate_id, name, skills, years_experience, education, preferred_location, expected_salary) ==
    [candidate_id       |-> candidate_id,
     name               |-> name,
     skills             |-> [i \in DOMAIN skills |-> upper(strip(skills[i]))],
     years_experience   |-> years_experience,
     education          |-> strip(education),
     preferred_location |-> strip(preferred_location),
     expected_salary    |-> expected_salary]

\* Job(...) followed by __post_init__
Job(job_id, title, company, required_skills, min_experience, education_required, location, salary_min, salary_max, is_remote) ==
    [job_id             |-> job_id,
     title              |-> strip(title),
     company            |-> strip(company),
     required_skills    |-> [i \in DOMAIN required_skills |-> upper(strip(required_skills[i]))],
     min_experience     |-> min_experience,
     education_required |-> strip(education_required),
     location           |-> strip(location),
     salary_min         |-> salary_min,
     salary_max         |-> salary_max,
     is_remote          |-> is_remote]

\* no clamping
NoClamp(x) == x

\* max(0.0, min(100.0, x))
Clamp(x) == Max(0, Min(Pct(100), x))

\* MatchResult(...) followed by __post_init__
MatchResult(candidate_id, job_id, match_score, skill_match, experience_match, location_match, salary_match, matched_skills, missing_skills) ==
    [candidate_id     |-> candidate_id,
     job_id           |-> job_id,
     match_score      |-> Clamp(match_score),
     skill_match      |-> Clamp(skill_match),
     experience_match |-> Clamp(experience_match),
     location_match   |-> Clamp(location_match),
     salary_match     |-> Clamp(salary_match),
     matched_skills   |-> matched_skills,
     missing_skills   |-> missing_skills]

(***************************************************************************)
(* The candidates and jobs of the model                                    *)
(***************************************************************************)

\* the longest list handed to a one-to-many operation
MaxList == 3

\* the longest list handed to get_top_matches
MaxTopList == 2

Candidates ==
    {Candidate("C001", "Alice", <<"Python", "Machine Learning", "SQL">>, 5, "Master's",
               "San Francisco, CA", 120000),
     Candidate("C002", "Bob", <<"Deep Learning", " Python">>, 3, "Bachelor's", "Remote", 0),
     Candidate("C003", "Charlie", <<"Word">>, 0, "High School", "Austin, TX", 200000)}

Jobs ==
    {Job("J001", "ML Engineer", "TechCorp", <<"Python", "Machine Learning", "TensorFlow">>,
         4, "Master's", "San Francisco, CA", 130000, 180000, FALSE),
     Job("J002", "Java Developer", "WebCorp", <<"Java", "Spring Boot">>,
         2, "Bachelor's", "New York, NY", 70000, 100000, FALSE),
     Job("J003", "Research Scientist", "DeepLab", <<"Deep Learning", " ml ">>,
         8, "PhD", "Boston, MA", 50000, 60000, FALSE),
     Job("J004", "ML Engineer", "OtherCorp", <<"Python", "Machine Learning", "TensorFlow">>,
         4, "Master's", "San Francisco, CA", 130000, 180000, FALSE)}

\* every state the engine's vectorizer can be left in by a call on these
\* candidates and jobs
VectorizerStates ==
    {Unfitted} \cup {calculate_skill_match(Unfitted, c.skills, j.required_skills).vec :
                        c \in Candidates, j \in Jobs}

\* calculate_skill_match tabulated over the vectorizer states and skill lists
\* of the model (evaluated once)
SkillMatchOf ==
    [v \in VectorizerStates, cs \in {c.skills : c \in Candidates},
     js \in {j.required_skills : j \in Jobs} |-> calculate_skill_match(v, cs, js)]
    @@ <<>>

(***************************************************************************)
(* MatchingEngine                                                          *)
(***************************************************************************)

\* weights in hundredths
DEFAULT_WEIGHTS == [skills |-> 40, experience |-> 25, salary |-> 20, location |-> 15]

MIN_MATCH_THRESHOLD == 30

\* the weighted sum under DEFAULT_WEIGHTS, whatever the engine's weights
WeightedSumDefault(w, skill_match, experience_match, salary_match, location_match) ==
    (skill_match * DEFAULT_WEIGHTS.skills + experience_match * DEFAULT_WEIGHTS.experience
       + salary_match * DEFAULT_WEIGHTS.salary + location_match * DEFAULT_WEIGHTS.location) \div 100

\* the salary and location weights exchanged
WeightedSumSwapped(w, skill_match, experience_match, salary_match, location_match) ==
    (skill_match * w.skills + experience_match * w.experience
       + salary_match * w.location + location_match * w.salary) \div 100

\* (skill * w.skills) + (experience * w.experience) + (salary * w.salary)
\* + (location * w.location)
WeightedSum(w, skill_match, experience_match, salary_match, location_match) ==
    (skill_match * w.skills + experience_match * w.experience
       + salary_match * w.salary + location_match * w.location) \div 100

\* the four scorer calls of match_candidate_to_job, sk being what
\* calculate_skill_match returned
ScoresWith(sk, candidate, job) ==
    [skill      |-> sk,
     experience |-> calculate_combined_experience_match(
                        candidate.years_experience, job.min_experience,
                        candidate.education, job.education_required),
     location   |-> calculate_location_match(
                        candidate.preferred_location, job.location, job.is_remote),
     salary     |-> calculate_salary_match(
                        candidate.expected_salary, job.salary_min, job.salary_max)]

\* the same, the skill scorer called on a vectorizer in state vec
Scores(vec, candidate, job) ==
    ScoresWith(SkillMatchOf[vec, candidate.skills, job.required_skills], candidate, job)

\* a MatchResult built with the two ids exchanged
ResultIdsExchanged(w, candidate, job, sc) ==
    MatchResult(job.job_id, candidate.candidate_id,
                WeightedSum(w, sc.skill.score, sc.experience, sc.salary, sc.location),
                sc.skill.score, sc.experience, sc.location, sc.salary,
                sc.skill.matched, sc.skill.missing)

\* the weighted overall score and the MatchResult built from the four scores
ResultOf(w, candidate, job, sc) ==
    MatchResult(candidate.candidate_id, job.job_id,
                WeightedSum(w, sc.skill.score, sc.experience, sc.salary, sc.location),
                sc.skill.score, sc.experience, sc.location, sc.salary,
                sc.skill.matched, sc.skill.missing)

\* the MatchResult of the four scores, and the vectorizer the skill scorer left
Evaluated(w, candidate, job, sc) ==
    [result |-> ResultOf(w, candidate, job, sc), vec |-> sc.skill.vec]

\* match_candidate_to_job: the MatchResult and the vectorizer afterwards
match_candidate_to_job(w, vec, candidate, job) ==
    Evaluated(w, candidate, job, Scores(vec, candidate, job))

\* min_threshold: None, or a number of percent points
None == [none |-> TRUE, value |-> 0]

Some(v) == [none |-> FALSE, value |-> v]

\* threshold = min_threshold or self.MIN_MATCH_THRESHOLD  (None and 0 are falsy)
EffectiveThreshold(min_threshold) ==
    IF min_threshold.none \/ min_threshold.value = 0 THEN MIN_MATCH_THRESHOLD
    ELSE min_threshold.value

\* a sort that puts x in front of the elements of equal score (not stable)
RECURSIVE InsertDescBeforeEqual(_, _)
InsertDescBeforeEqual(sorted, x) ==
    IF sorted = <<>> THEN <<x>>
    ELSE IF Head(sorted).match_score > x.match_score
    THEN <<Head(sorted)>> \o InsertDescBeforeEqual(Tail(sorted), x)
    ELSE <<x>> \o sorted

\* list.sort(key=lambda x: x.match_score, reverse=True): stable, descending.
\* Insert x behind every element whose score is >= its own.
RECURSIVE InsertDesc(_, _)
InsertDesc(sorted, x) ==
    IF sorted = <<>> THEN <<x>>
    ELSE IF Head(sorted).match_score >= x.match_score
    THEN <<Head(sorted)>> \o InsertDesc(Tail(sorted), x)
    ELSE <<x>> \o sorted

RECURSIVE SortDescFrom(_, _)
SortDescFrom(acc, rest) ==
    IF rest = <<>> THEN acc ELSE SortDescFrom(InsertDesc(acc, Head(rest)), Tail(rest))

\* the results left in the order they were appended
NoSort(results) == results

SortByScoreDesc(results) == SortDescFrom(<<>>, results)

\* results.append(result) when result.match_score >= threshold
KeepIf(results, result, threshold) ==
    IF result.match_score >= Pct(threshold) THEN Append(results, result) ELSE results

\* one pass of the loop body: m is what match_candidate_to_job returned, st
\* the results appended so far and the vectorizer so far
LoopStep(st, m, threshold) ==
    [results |-> KeepIf(st.results, m.result, threshold), vec |-> m.vec]

\* results.sort(...); return results
SortedResults(st) == [results |-> SortByScoreDesc(st.results), vec |-> st.vec]

\* the loop of match_candidate_to_jobs over jobs[k..]
RECURSIVE JobsLoop(_, _, _, _, _, _)
JobsLoop(w, st, candidate, jobs, k, threshold) ==
    IF k > Len(jobs) THEN st
    ELSE JobsLoop(w, LoopStep(st, match_candidate_to_job(w, st.vec, candidate, jobs[k]), threshold),
                  candidate, jobs, k + 1, threshold)

match_candidate_to_jobs(w, vec, candidate, jobs, min_threshold) ==
    SortedResults(JobsLoop(w, [results |-> <<>>, vec |-> vec], candidate, jobs, 1,
                           EffectiveThreshold(min_threshold)))

\* the loop of match_job_to_candidates over candidates[k..]
RECURSIVE CandidatesLoop(_, _, _, _, _, _)
CandidatesLoop(w, st, job, candidates, k, threshold) ==
    IF k > Len(candidates) THEN st
    ELSE CandidatesLoop(w, LoopStep(st, match_candidate_to_job(w, st.vec, candidates[k], job), threshold),
                        job, candidates, k + 1, threshold)

match_job_to_candidates(w, vec, job, candidates, min_threshold) ==
    SortedResults(CandidatesLoop(w, [results |-> <<>>, vec |-> vec], job, candidates, 1,
                                 EffectiveThreshold(min_threshold)))

\* the dict get_top_matches appends for one pair
TopRecord(candidate, job, result) ==
    [candidate_id     |-> candidate.candidate_id,
     candidate_name   |-> candidate.name,
     job_id           |-> job.job_id,
     job_title        |-> job.title,
     company          |-> job.company,
     match_score      |-> result.match_score,
     skill_match      |-> result.skill_match,
     experience_match |-> result.experience_match,
     location_match   |-> result.location_match,
     salary_match     |-> result.salary_match,
     matched_skills   |-> result.matched_skills,
     missing_skills   |-> result.missing_skills]

\* all_matches.append({...}) for one pair, m being what match_candidate_to_job
\* returned
PairStep(st, candidate, job, m) ==
    [results |-> Append(st.results, TopRecord(candidate, job, m.result)), vec |-> m.vec]

\* the body of the nested loops for one pair
PairOf(w, st, candidate, job) ==
    PairStep(st, candidate, job, match_candidate_to_job(w, st.vec, candidate, job))

\* the nested loops of get_top_matches from pair number p of the row-major
\* enumeration of candidates x jobs
RECURSIVE PairsLoop(_, _, _, _, _)
PairsLoop(w, st, candidates, jobs, p) ==
    IF p > Len(candidates) * Len(jobs) THEN st
    ELSE PairsLoop(w, PairOf(w, st, candidates[((p - 1) \div Len(jobs)) + 1],
                             jobs[((p - 1) % Len(jobs)) + 1]),
                   candidates, jobs, p + 1)

\* s[:n + 1]
SliceOneMore(s, n) == SubSeq(s, 1, Min(n + 1, Len(s)))

\* s[:n]
Slice(s, n) ==
    LET stop == IF n >= 0 THEN Min(n, Len(s)) ELSE Max(0, Len(s) + n)
    IN  SubSeq(s, 1, stop)

\* all_matches.sort(...); return all_matches[:top_n]
TopOf(st, top_n) == [results |-> Slice(SortByScoreDesc(st.results), top_n), vec |-> st.vec]

get_top_matches(w, vec, candidates, jobs, top_n) ==
    TopOf(PairsLoop(w, [results |-> <<>>, vec |-> vec], candidates, jobs, 1), top_n)

(***************************************************************************)
(* The engine as a state machine.  A MatchingEngine is constructed once    *)
(* (Init); each action is one call of a public method on it.  The only     *)
(* state the engine keeps between calls is its weight set and the fitted   *)
(* state of its SkillMatcher's vectorizer; call and ret hold the arguments *)
(* and the return value of the call in progress until the caller takes the *)
(* result (Return).                                                        *)
(*                                                                         *)
(*   weights     self.weights                                              *)
(*   vectorizer  self.skill_matcher.vectorizer                             *)
(*   call        the public method called last and its arguments;          *)
(*               call.before tells whether the vectorizer had been fitted  *)
(*               on another corpus when the call began                     *)
(*   ret         the list it returned (a single MatchResult as a list of   *)
(*               one)                                                      *)
(*   threads     the concurrent evaluations of SpecConcurrent              *)
(*   scorer      a direct call of one scorer (SpecSkill)                   *)
(***************************************************************************)

VARIABLES weights, vectorizer, call, ret, threads, scorer

vars == <<weights, vectorizer, call, ret, threads, scorer>>

\* the weights argument of MatchingEngine(...): None, or a dict
WeightArgs ==
    {[none |-> TRUE, w |-> DEFAULT_WEIGHTS],
     [none |-> FALSE, w |-> [skills |-> 50, experience |-> 20, salary |-> 20, location |-> 10]],
     [none |-> FALSE, w |-> [skills |-> 100, experience |-> 100, salary |-> 100, location |-> 100]],
     [none |-> FALSE, w |-> [skills |-> 200, experience |-> -100, salary |-> 0, location |-> 0]]}

Thresholds == {None, Some(0), Some(30), Some(60)}

TopNs == {-1, 0, 1, 3}

\* the lists without repetition of at most n elements of S
ListsOf(S, n) ==
    UNION {{s \in [1..k -> S] : \A i, j \in 1..k : i # j => s[i] # s[j]} : k \in 0..n}

NoCall ==
    [op |-> "none", candidates |-> <<>>, jobs |-> <<>>, min_threshold |-> None, top_n |-> 0,
     before |-> "none"]

NoScorer == [fn |-> "none", pc |-> "none", args |-> <<>>, out |-> <<>>]

\* how the vectorizer a call found relates to the one it leaves
Before(vec, vec1) ==
    IF ~vec.fitted THEN "unfitted" ELSE IF vec = vec1 THEN "same" ELSE "other"

\* self.weights = weights or self.DEFAULT_WEIGHTS
EngineWeights(arg) == IF arg.none THEN DEFAULT_WEIGHTS ELSE arg.w

Init ==
    /\ \E arg \in WeightArgs : weights = EngineWeights(arg)
    /\ vectorizer = Unfitted
    /\ call = NoCall
    /\ ret = <<>>
    /\ threads = <<>>
    /\ scorer = NoScorer

MatchCandidateToJob ==
    /\ call.op = "none"
    /\ \E c \in Candidates, j \in Jobs :
          \E m \in {match_candidate_to_job(weights, vectorizer, c, j)} :
              /\ call' = [NoCall EXCEPT !.op = "match_candidate_to_job",
                                        !.candidates = <<c>>, !.jobs = <<j>>,
                                        !.before = Before(vectorizer, m.vec)]
              /\ ret' = <<m.result>>
              /\ vectorizer' = m.vec
    /\ UNCHANGED <<weights, threads, scorer>>

MatchCandidateToJobs ==
    /\ call.op = "none"
    /\ \E c \in Candidates, js \in ListsOf(Jobs, MaxList), t \in Thresholds :
          \E m \in {match_candidate_to_jobs(weights, vectorizer, c, js, t)} :
              /\ call' = [NoCall EXCEPT !.op = "match_candidate_to_jobs", !.candidates = <<c>>,
                                        !.jobs = js, !.min_threshold = t]
              /\ ret' = m.results
              /\ vectorizer' = m.vec
    /\ UNCHANGED <<weights, threads, scorer>>

MatchJobToCandidates ==
    /\ call.op = "none"
    /\ \E j \in Jobs, cs \in ListsOf(Candidates, MaxList), t \in Thresholds :
          \E m \in {match_job_to_candidates(weights, vectorizer, j, cs, t)} :
              /\ call' = [NoCall EXCEPT !.op = "match_job_to_candidates", !.candidates = cs,
                                        !.jobs = <<j>>, !.min_threshold = t]
              /\ ret' = m.results
              /\ vectorizer' = m.vec
    /\ UNCHANGED <<weights, threads, scorer>>

GetTopMatches ==
    /\ call.op = "none"
    /\ \E cs \in ListsOf(Candidates, MaxTopList), js \in ListsOf(Jobs, MaxTopList), n \in TopNs :
          \E m \in {get_top_matches(weights, vectorizer, cs, js, n)} :
              /\ call' = [NoCall EXCEPT !.op = "get_top_matches", !.candidates = cs,
                                        !.jobs = js, !.top_n = n]
              /\ ret' = m.results
              /\ vectorizer' = m.vec
    /\ UNCHANGED <<weights, threads, scorer>>

\* the caller takes the returned value; the engine keeps no reference to it
Return ==
    /\ call.op # "none"
    /\ call' = NoCall
    /\ ret' = <<>>
    /\ UNCHANGED <<weights, vectorizer, threads, scorer>>

Next ==
    \/ MatchCandidateToJob
    \/ MatchCandidateToJobs
    \/ MatchJobToCandidates
    \/ GetTopMatches
    \/ Return

Spec == Init /\ [][Next]_vars

(***************************************************************************)
(* SkillMatcher.calculate_skill_match called directly (SpecSkill): the     *)
(* initial state holds the two skill lists of the call, ApplySkill is the  *)
(* call on a newly constructed SkillMatcher.                               *)
(***************************************************************************)

\* the longest skill list of a direct call
MaxSkills == 2

RawSkills == {"Python", " ml ", "Machine Learning", "Deep Learning", "++"}

\* the lists, with repetition, of at most n elements of S
SeqsOf(S, n) == UNION {[1..k -> S] : k \in 0..n}

InitSkill ==
    /\ weights = DEFAULT_WEIGHTS
    /\ vectorizer = Unfitted
    /\ call = NoCall
    /\ ret = <<>>
    /\ threads = <<>>
    /\ \E cs \in SeqsOf(RawSkills, MaxSkills), js \in SeqsOf(RawSkills, MaxSkills) :
          scorer = [fn |-> "calculate_skill_match", pc |-> "call", args |-> <<cs, js>>,
                    out |-> <<>>]

ApplySkill ==
    /\ scorer.fn = "calculate_skill_match"
    /\ scorer.pc = "call"
    /\ LET m == calculate_skill_match(vectorizer, scorer.args[1], scorer.args[2])
       IN  /\ scorer' = [scorer EXCEPT !.pc = "done",
                                       !.out = [score |-> m.score, matched |-> m.matched,
                                                missing |-> m.missing]]
           /\ vectorizer' = m.vec
    /\ UNCHANGED <<weights, call, ret, threads>>

NextSkill == ApplySkill

SpecSkill == InitSkill /\ [][NextSkill]_vars

(***************************************************************************)
(* The experience, education, salary and location scorers called directly  *)
(* (SpecScorers): the initial state holds the scorer called and its        *)
(* arguments, each action is the call of one scorer.                       *)
(***************************************************************************)

\* the greatest number of years of a direct call
MaxYears == 9

\* the greatest salary of a direct call, in steps of 10000
MaxSalary == 15

\* education and location texts as callers write them
EducationTexts == DOMAIN LowerTable \cup {"", "associate"}

LocationTexts ==
    {"", "  ", "Remote", "remote", "Remote (US)", "Austin, TX or Remote", "San Francisco, CA",
     "Palo Alto, CA", "Los Angeles, CA", "New York, NY", "NEW YORK, NY", "Jersey City, NJ",
     "Austin, TX", "Boston, MA", "Seattle", "California", "ca"}

Years == 0..MaxYears

Salaries == {k * 10000 : k \in 0..MaxSalary}

ScorerCall(fn, args) == [fn |-> fn, pc |-> "call", args |-> args, out |-> <<>>]

InitScorers ==
    /\ weights = DEFAULT_WEIGHTS
    /\ vectorizer = Unfitted
    /\ call = NoCall
    /\ ret = <<>>
    /\ threads = <<>>
    /\ \/ \E y \in Years, m \in Years :
             scorer = ScorerCall("calculate_experience_match", <<y, m>>)
       \/ \E ce \in EducationTexts, re \in EducationTexts :
             scorer = ScorerCall("calculate_education_match", <<ce, re>>)
       \/ \E e \in Salaries, mn \in Salaries, mx \in Salaries :
             scorer = ScorerCall("calculate_salary_match", <<e, mn, mx>>)
       \/ \E cl \in LocationTexts, jl \in LocationTexts, remote \in BOOLEAN :
             scorer = ScorerCall("calculate_location_match", <<cl, jl, remote>>)
       \/ \E cl \in LocationTexts, jl \in LocationTexts, remote \in BOOLEAN :
             scorer = ScorerCall("get_location_details", <<cl, jl, remote>>)

\* the scorer returns score
Returns(score) ==
    /\ scorer' = [scorer EXCEPT !.pc = "done", !.out = [score |-> score]]
    /\ UNCHANGED <<weights, vectorizer, call, ret, threads>>

ApplyExperience ==
    /\ scorer.fn = "calculate_experience_match"
    /\ scorer.pc = "call"
    /\ Returns(calculate_experience_match(scorer.args[1], scorer.args[2]))

ApplyEducation ==
    /\ scorer.fn = "calculate_education_match"
    /\ scorer.pc = "call"
    /\ Returns(calculate_education_match(scorer.args[1], scorer.args[2]))

ApplySalary ==
    /\ scorer.fn = "calculate_salary_match"
    /\ scorer.pc = "call"
    /\ Returns(calculate_salary_match(scorer.args[1], scorer.args[2], scorer.args[3]))

ApplyLocation ==
    /\ scorer.fn = "calculate_location_match"
    /\ scorer.pc = "call"
    /\ Returns(calculate_location_match(scorer.args[1], scorer.args[2], scorer.args[3]))

ApplyLocationDetails ==
    /\ scorer.fn = "get_location_details"
    /\ scorer.pc = "call"
    /\ scorer' = [scorer EXCEPT !.pc = "done",
                                !.out = get_location_details(scorer.args[1], scorer.args[2],
                                                             scorer.args[3])]
    /\ UNCHANGED <<weights, vectorizer, call, ret, threads>>

NextScorers ==
    \/ ApplyExperience
    \/ ApplyEducation
    \/ ApplySalary
    \/ ApplyLocation
    \/ ApplyLocationDetails

SpecScorers == InitScorers /\ [][NextScorers]_vars

(***************************************************************************)
(* get_match_statistics and get_match_level (SpecStatistics).  sum(scores) *)
(* / len(scores) adds IEEE 754 doubles from left to right, each sum and    *)
(* the quotient rounded to 53 significant bits, to nearest, ties to even;  *)
(* here the rounding matters, so a score is held exactly: a double d of    *)
(* value 0 or >= 1 is the natural number d * 2^52, written as Limbs digits *)
(* of LimbBits bits, least significant first.                              *)
(***************************************************************************)

LimbBits == 15

Limbs == 5

\* the significant bits of a double
Significand == 53

\* the binary places kept below 1, and the further ones kept in a quotient
\* before it is rounded
Places == 52

GuardPlaces == 4

RECURSIVE Pow2(_)
Pow2(k) == IF k = 0 THEN 1 ELSE 2 * Pow2(k - 1)

LimbBase == Pow2(LimbBits)

RECURSIVE AddFrom(_, _, _, _)
AddFrom(a, b, i, carry) ==
    IF i > Limbs THEN <<>>
    ELSE <<(a[i] + b[i] + carry) % LimbBase>>
             \o AddFrom(a, b, i + 1, (a[i] + b[i] + carry) \div LimbBase)

\* a + b
BigAdd(a, b) == AddFrom(a, b, 1, 0)

RECURSIVE MulFrom(_, _, _, _)
MulFrom(a, k, i, carry) ==
    IF i > Limbs THEN <<>>
    ELSE <<(a[i] * k + carry) % LimbBase>>
             \o MulFrom(a, k, i + 1, (a[i] * k + carry) \div LimbBase)

\* a * k for 0 <= k <= LimbBase
BigMulSmall(a, k) == MulFrom(a, k, 1, 0)

RECURSIVE DivFrom(_, _, _, _)
DivFrom(a, d, i, rem) ==
    IF i = 0 THEN [q |-> <<>>, r |-> rem]
    ELSE LET rest == DivFrom(a, d, i - 1, (rem * LimbBase + a[i]) % d)
         IN  [q |-> rest.q \o <<(rem * LimbBase + a[i]) \div d>>, r |-> rest.r]

\* quotient q and remainder r of a by d, 0 < d <= LimbBase
BigDivSmall(a, d) == DivFrom(a, d, Limbs, 0)

RECURSIVE LessFrom(_, _, _)
LessFrom(a, b, i) ==
    IF i = 0 THEN FALSE
    ELSE IF a[i] # b[i] THEN a[i] < b[i]
    ELSE LessFrom(a, b, i - 1)

\* a < b and a <= b
BigLess(a, b) == LessFrom(a, b, Limbs)

BigLeq(a, b) == ~BigLess(b, a)

RECURSIVE SmallBitLength(_)
SmallBitLength(n) == IF n = 0 THEN 0 ELSE 1 + SmallBitLength(n \div 2)

RECURSIVE BitLengthFrom(_, _)
BitLengthFrom(a, i) ==
    IF i = 0 THEN 0
    ELSE IF a[i] # 0 THEN (i - 1) * LimbBits + SmallBitLength(a[i])
    ELSE BitLengthFrom(a, i - 1)

\* the number of bits of a
BitLength(a) == BitLengthFrom(a, Limbs)

BigOfSmall(k) == [i \in 1..Limbs |-> IF i = 1 THEN k ELSE 0]

\* the quotient q with excess bits beyond the significand, rounded to nearest,
\* ties to even; inexact tells that q is the floor of a greater value
RoundQuotient(dv, d, inexact) ==
    LET up == \/ 2 * dv.r > d
              \/ 2 * dv.r = d /\ (inexact \/ dv.q[1] % 2 = 1)
    IN  BigMulSmall(IF up THEN BigAdd(dv.q, BigOfSmall(1)) ELSE dv.q, d)

RoundBits(a, excess, inexact) ==
    IF excess <= 0 THEN a
    ELSE RoundQuotient(BigDivSmall(a, Pow2(excess)), Pow2(excess), inexact)

\* a rounded to the nearest number of Significand bits
RoundNearestEven(a, inexact) == RoundBits(a, BitLength(a) - Significand, inexact)

\* float + float
FloatAdd(x, y) == RoundNearestEven(BigAdd(x, y), FALSE)

FloatQuotient(dv) == BigDivSmall(RoundNearestEven(dv.q, dv.r # 0), Pow2(GuardPlaces)).q

\* float / int, for a quotient that is 0 or >= 1
FloatDivInt(x, n) == FloatQuotient(BigDivSmall(BigMulSmall(x, Pow2(GuardPlaces)), n))

\* the float 1.0
FloatOne == [i \in 1..Limbs |-> IF i = Places \div LimbBits + 1 THEN Pow2(Places % LimbBits) ELSE 0]

\* float(k) for an int 0 <= k < LimbBase
FloatOfInt(k) == BigMulSmall(FloatOne, k)

\* the float literal num/den: the double nearest to the fraction
FloatLiteral(num, den) == FloatDivInt(FloatOfInt(num), den)

RECURSIVE SumFloats(_, _)
SumFloats(scores, acc) ==
    IF scores = <<>> THEN acc ELSE SumFloats(Tail(scores), FloatAdd(acc, Head(scores)))

\* sum(scores): the int 0, then each score added in turn
sum(scores) == SumFloats(scores, FloatOfInt(0))

RECURSIVE MinFloat(_)
MinFloat(scores) ==
    IF Len(scores) = 1 THEN scores[1]
    ELSE IF BigLess(Head(scores), MinFloat(Tail(scores))) THEN Head(scores)
    ELSE MinFloat(Tail(scores))

RECURSIVE MaxFloat(_)
MaxFloat(scores) ==
    IF Len(scores) = 1 THEN scores[1]
    ELSE IF BigLess(MaxFloat(Tail(scores)), Head(scores)) THEN Head(scores)
    ELSE MaxFloat(Tail(scores))

\* len([s for s in scores if lo <= s < hi]); hi = <<>> for no upper limit
RECURSIVE CountBetween(_, _, _)
CountBetween(scores, lo, hi) ==
    IF scores = <<>> THEN 0
    ELSE (IF BigLeq(lo, Head(scores)) /\ (hi = <<>> \/ BigLess(Head(scores), hi)) THEN 1 ELSE 0)
         + CountBetween(Tail(scores), lo, hi)

\* the labels given above the limits only, a score on a limit one label lower
MatchLevelAboveLimit(self) ==
    IF BigLess(FloatOfInt(70), self.match_score) THEN "Excellent Match"
    ELSE IF BigLess(FloatOfInt(50), self.match_score) THEN "Good Match"
    ELSE IF BigLess(FloatOfInt(30), self.match_score) THEN "Fair Match"
    ELSE "Low Match"

\* MatchResult.get_match_level
get_match_level(self) ==
    IF BigLeq(FloatOfInt(70), self.match_score) THEN "Excellent Match"
    ELSE IF BigLeq(FloatOfInt(50), self.match_score) THEN "Good Match"
    ELSE IF BigLeq(FloatOfInt(30), self.match_score) THEN "Fair Match"
    ELSE "Low Match"

StatisticsOf(matches, scores) ==
    [count             |-> Len(matches),
     avg_score         |-> FloatDivInt(sum(scores), Len(scores)),
     min_score         |-> MinFloat(scores),
     max_score         |-> MaxFloat(scores),
     excellent_matches |-> CountBetween(scores, FloatOfInt(70), <<>>),
     good_matches      |-> CountBetween(scores, FloatOfInt(50), FloatOfInt(70)),
     fair_matches      |-> CountBetween(scores, FloatOfInt(30), FloatOfInt(50)),
     low_matches       |-> CountBetween(scores, FloatOfInt(0), FloatOfInt(30))]

get_match_statistics(matches) ==
    IF matches = <<>>
    THEN [count |-> 0, avg_score |-> FloatOfInt(0), min_score |-> FloatOfInt(0),
          max_score |-> FloatOfInt(0), excellent_matches |-> 0, good_matches |-> 0,
          fair_matches |-> 0, low_matches |-> 0]
    ELSE StatisticsOf(matches, [i \in DOMAIN matches |-> matches[i].match_score])

\* the longest list of results handed to get_match_statistics
MaxMatches == 3

\* match scores in hundredths: 0, 25.5, 29.99, 30, 50, 55.55, 69.99, 70, 85.7
ScoreHundredths == {0, 2550, 2999, 3000, 5000, 5555, 6999, 7000, 8570}

\* a MatchResult with this match_score (the other fields are not read)
ScoredResult(hundredths) ==
    [candidate_id |-> "C001", job_id |-> "J001",
     match_score |-> FloatLiteral(hundredths, 100)]

ScoredResults == {ScoredResult(h) : h \in ScoreHundredths}

InitStatistics ==
    /\ weights = DEFAULT_WEIGHTS
    /\ vectorizer = Unfitted
    /\ call = NoCall
    /\ ret = <<>>
    /\ threads = <<>>
    /\ \/ \E matches \in SeqsOf(ScoredResults, MaxMatches) :
             scorer = ScorerCall("get_match_statistics", <<matches>>)
       \/ \E m \in ScoredResults :
             scorer = ScorerCall("get_match_level", <<m>>)

ApplyStatistics ==
    /\ scorer.fn = "get_match_statistics"
    /\ scorer.pc = "call"
    /\ scorer' = [scorer EXCEPT !.pc = "done", !.out = get_match_statistics(scorer.args[1])]
    /\ UNCHANGED <<weights, vectorizer, call, ret, threads>>

ApplyMatchLevel ==
    /\ scorer.fn = "get_match_level"
    /\ scorer.pc = "call"
    /\ scorer' = [scorer EXCEPT !.pc = "done", !.out = [level |-> get_match_level(scorer.args[1])]]
    /\ UNCHANGED <<weights, vectorizer, call, ret, threads>>

NextStatistics ==
    \/ ApplyStatistics
    \/ ApplyMatchLevel

SpecStatistics == InitStatistics /\ [][NextStatistics]_vars

(***************************************************************************)
(* One match_candidate_to_job call on a new engine (SpecPair), for the     *)
(* sample candidates and jobs and for ones whose skills hold no word       *)
(* character, on which the vectorizer finds an empty vocabulary and        *)
(* raises.                                                                 *)
(***************************************************************************)

PairCandidates ==
    Candidates \cup
    {Candidate("C101", "Dana", <<"++">>, 2, "Bachelor's", "Remote", 0),
     Candidate("C102", "Eli", <<"#", "++">>, 6, "PhD", "Boston, MA", 60000)}

PairJobs ==
    Jobs \cup
    {Job("J101", "Developer", "PlusCorp", <<"++">>, 2, "Bachelor's", "Remote", 0, 0, TRUE),
     Job("J102", "Developer", "HashCorp", <<"++", "#">>, 1, "Bachelor's", "Boston, MA",
         50000, 60000, FALSE)}

InitPair ==
    /\ \E arg \in WeightArgs : weights = EngineWeights(arg)
    /\ vectorizer = Unfitted
    /\ \E c \in PairCandidates, j \in PairJobs :
          call = [NoCall EXCEPT !.op = "call", !.candidates = <<c>>, !.jobs = <<j>>]
    /\ ret = <<>>
    /\ threads = <<>>
    /\ scorer = NoScorer

EvaluatePair ==
    /\ call.op = "call"
    /\ \E m \in {Evaluated(weights, call.candidates[1], call.jobs[1],
                           ScoresWith(calculate_skill_match(vectorizer, call.candidates[1].skills,
                                                            call.jobs[1].required_skills),
                                      call.candidates[1], call.jobs[1]))} :
          /\ call' = [call EXCEPT !.op = "match_candidate_to_job",
                                  !.before = Before(vectorizer, m.vec)]
          /\ ret' = <<m.result>>
          /\ vectorizer' = m.vec
    /\ UNCHANGED <<weights, threads, scorer>>

NextPair == EvaluatePair

SpecPair == InitPair /\ [][NextPair]_vars

(***************************************************************************)
(* Concurrent evaluations on one engine (SpecConcurrent), as when the API  *)
(* serves two requests at once on its module-level MatchingEngine.  Each   *)
(* thread runs match_candidate_to_job; inside fit_transform the fit (which *)
(* writes the vectorizer) and the transform (which reads it) are separate  *)
(* steps that the steps of the other threads may come between.             *)
(***************************************************************************)

ThreadIds == {"t1", "t2"}

IdleThread == [pc |-> "idle", candidate |-> <<>>, job |-> <<>>, result |-> <<>>]

InitConcurrent ==
    /\ weights = DEFAULT_WEIGHTS
    /\ vectorizer = Unfitted
    /\ call = NoCall
    /\ ret = <<>>
    /\ scorer = NoScorer
    /\ threads = [t \in ThreadIds |-> IdleThread]

\* thread t enters match_candidate_to_job(c, j)
ThreadCall(t) ==
    /\ threads[t].pc = "idle"
    /\ \E c \in Candidates, j \in Jobs :
          threads' = [threads EXCEPT ![t] = [pc |-> "fit", candidate |-> <<c>>, job |-> <<j>>,
                                             result |-> <<>>]]
    /\ UNCHANGED <<weights, vectorizer, call, ret, scorer>>

\* calculate_skill_match up to and including the fit of fit_transform; a call
\* that does not reach fit_transform, or whose fit raises, finishes here
ThreadFit(t) ==
    /\ threads[t].pc = "fit"
    /\ LET c  == threads[t].candidate[1]
           j  == threads[t].job[1]
           e  == SkillExact(c.skills, j.required_skills)
           cv == CountFitTransform(e.normalized_candidate \o e.normalized_job)
       IN  IF Len(e.normalized_job) = 0 \/ Len(e.normalized_candidate) = 0 \/ cv.raised
           THEN /\ threads' = [threads EXCEPT ![t].pc = "done",
                                  ![t].result = <<ResultOf(weights, c, j,
                                      ScoresWith(calculate_skill_match(vectorizer, c.skills,
                                                                       j.required_skills), c, j))>>]
                /\ UNCHANGED vectorizer
           ELSE /\ vectorizer' = TfidfFit(vectorizer, cv.vocabulary, cv.X)
                /\ threads' = [threads EXCEPT ![t].pc = "transform"]
    /\ UNCHANGED <<weights, call, ret, scorer>>

\* the transform of fit_transform, on the vectorizer as it is now, and the
\* rest of match_candidate_to_job
ThreadTransform(t) ==
    /\ threads[t].pc = "transform"
    /\ LET c  == threads[t].candidate[1]
           j  == threads[t].job[1]
           e  == SkillExact(c.skills, j.required_skills)
           cv == CountFitTransform(e.normalized_candidate \o e.normalized_job)
           tr == TfidfTransform(vectorizer, cv.X)
           sk == [score |-> Min(Pct(100), SkillFinal(e, tr)), matched |-> e.matched,
                  missing |-> e.missing, vec |-> vectorizer]
       IN  threads' = [threads EXCEPT ![t].pc = "done",
                          ![t].result = <<ResultOf(weights, c, j, ScoresWith(sk, c, j))>>]
    /\ UNCHANGED <<weights, vectorizer, call, ret, scorer>>

\* the caller takes the result
ThreadReturn(t) ==
    /\ threads[t].pc = "done"
    /\ threads' = [threads EXCEPT ![t] = IdleThread]
    /\ UNCHANGED <<weights, vectorizer, call, ret, scorer>>

NextConcurrent ==
    \E t \in ThreadIds :
        \/ ThreadCall(t)
        \/ ThreadFit(t)
        \/ ThreadTransform(t)
        \/ ThreadReturn(t)

SpecConcurrent == InitConcurrent /\ [][NextConcurrent]_vars

(***************************************************************************)
(* Helpers of the properties                                               *)
(***************************************************************************)

OneToManyOps == {"match_candidate_to_jobs", "match_job_to_candidates"}

BatchOps == OneToManyOps \cup {"get_top_matches"}

\* the candidate and the job a returned record is about
CandidateOf(r) == CHOOSE c \in Candidates : c.candidate_id = r.candidate_id

JobOf(r) == CHOOSE j \in Jobs : j.job_id = r.job_id

\* what a newly constructed engine with these weights returns for the pair
Alone(w, c, j) == match_candidate_to_job(w, Unfitted, c, j).result

SortedDescending(results) ==
    \A i \in 1..(Len(results) - 1) : results[i].match_score >= results[i + 1].match_score

\* the position of a returned record's pair in the enumeration of the inputs
EnumIndex(r) ==
    LET ci == CHOOSE i \in DOMAIN call.candidates :
                  call.candidates[i].candidate_id = r.candidate_id
        ji == CHOOSE i \in DOMAIN call.jobs : call.jobs[i].job_id = r.job_id
    IN  (ci - 1) * Len(call.jobs) + ji

\* w_skills*skill_match + w_experience*experience_match + w_salary*salary_match
\* + w_location*location_match of a result's own sub-scores, weights in hundredths
LinearCombination(ws, we, wsa, wl, r) ==
    (ws * r.skill_match + we * r.experience_match + wsa * r.salary_match
       + wl * r.location_match) \div 100

InRange(x) == 0 <= x /\ x <= Pct(100)

(***************************************************************************)
(* Properties of the engine (Spec)                                         *)
(***************************************************************************)

\* the threshold the caller asked for: 30 when none is given
AskedThreshold(t) == IF t.none THEN 30 ELSE t.value

\* C1: the list returned by match_candidate_to_jobs and by
\* match_job_to_candidates is sorted by match_score in non-increasing order
\* and every element has match_score >= the threshold (30 when none is given).
C1_SortedAndAboveThreshold ==
    call.op \in OneToManyOps =>
        /\ SortedDescending(ret)
        /\ \A i \in DOMAIN ret :
              ret[i].match_score >= Pct(AskedThreshold(call.min_threshold))

\* a one-to-many call that dropped a pair and had to reorder the rest
C1_Witness ==
    /\ call.op \in OneToManyOps
    /\ Len(ret) = 2
    /\ Len(ret) < Len(call.candidates) * Len(call.jobs)
    /\ ret[1].match_score > ret[2].match_score
    /\ EnumIndex(ret[1]) > EnumIndex(ret[2])

\* is the pair (c, j) among the returned results
Returned(c, j) ==
    \E i \in DOMAIN ret : ret[i].candidate_id = c.candidate_id /\ ret[i].job_id = j.job_id

\* C2: for every caller-supplied numeric threshold t, including t = 0, the
\* one-to-many operations return a result for exactly those pairs whose overall
\* score is >= t.  (Stated for the engine with the default weights.)
C2_ExactlyThePairsMeetingThreshold ==
    (/\ call.op \in OneToManyOps
     /\ ~call.min_threshold.none
     /\ weights = DEFAULT_WEIGHTS) =>
        \A ci \in DOMAIN call.candidates, ji \in DOMAIN call.jobs :
            LET c == call.candidates[ci]
                j == call.jobs[ji]
            IN  Returned(c, j)
                    <=> Alone(weights, c, j).match_score >= Pct(call.min_threshold.value)

\* C3: with the default weight set, match_candidate_to_job returns a
\* MatchResult whose match_score equals 0.40*skill_match + 0.25*experience_match
\* + 0.20*salary_match + 0.15*location_match, the four sub-scores being the
\* outputs of the four scorers for that pair.
C3_DefaultWeightedSum ==
    (call.op = "match_candidate_to_job" /\ weights = DEFAULT_WEIGHTS) =>
        LET r == ret[1]
            c == call.candidates[1]
            j == call.jobs[1]
        IN  /\ r.match_score = LinearCombination(40, 25, 20, 15, r)
            /\ r.skill_match = calculate_skill_match(Unfitted, c.skills, j.required_skills).score
            /\ r.experience_match = calculate_combined_experience_match(
                   c.years_experience, j.min_experience, c.education, j.education_required)
            /\ r.salary_match = calculate_salary_match(
                   c.expected_salary, j.salary_min, j.salary_max)
            /\ r.location_match = calculate_location_match(
                   c.preferred_location, j.location, j.is_remote)

\* a pair evaluated with the default weights whose four sub-scores all differ
C3_Witness ==
    /\ call.op = "match_candidate_to_job"
    /\ weights = DEFAULT_WEIGHTS
    /\ Cardinality({ret[1].skill_match, ret[1].experience_match, ret[1].salary_match,
                    ret[1].location_match}) = 4

\* scorer arguments beyond those of the sample candidates and jobs
SalaryGrid == {0, 30000, 60000, 100000, 150000, 200000}

YearsGrid == 0..8

\* the three scorers of plain values, on every combination of these arguments
ScorersInRangeOnGrid ==
    /\ \A e \in SalaryGrid, mn \in SalaryGrid, mx \in SalaryGrid :
          InRange(calculate_salary_match(e, mn, mx))
    /\ \A y \in YearsGrid, m \in YearsGrid, ce \in EducationTexts, re \in EducationTexts :
          InRange(calculate_combined_experience_match(y, m, ce, re))
    /\ \A cl \in LocationTexts, jl \in LocationTexts, remote \in BOOLEAN :
          InRange(calculate_location_match(cl, jl, remote))

\* C4: every score a scorer produces and every score field of every MatchResult
\* the engine produces lies in [0,100], for any weight set, including weight
\* sets that do not sum to 1.0.
C4_ScoresInRange ==
    /\ ScorersInRangeOnGrid
    /\ \A i \in DOMAIN ret :
          /\ InRange(ret[i].match_score)
          /\ InRange(ret[i].skill_match)
          /\ InRange(ret[i].experience_match)
          /\ InRange(ret[i].salary_match)
          /\ InRange(ret[i].location_match)
    /\ call.op # "none" =>
          \A ci \in DOMAIN call.candidates, ji \in DOMAIN call.jobs :
              LET sc == Scores(Unfitted, call.candidates[ci], call.jobs[ji])
              IN  /\ InRange(sc.skill.score)
                  /\ InRange(sc.experience)
                  /\ InRange(sc.salary)
                  /\ InRange(sc.location)

\* a result of an engine whose weights sum to 4.0: the weighted sum of its
\* sub-scores is above 100 and the match_score is 100
C4_Witness ==
    /\ call.op = "match_candidate_to_job"
    /\ weights.skills + weights.experience + weights.salary + weights.location = 400
    /\ LinearCombination(weights.skills, weights.experience, weights.salary,
                         weights.location, ret[1]) > Pct(100)
    /\ ret[1].match_score = Pct(100)

SumsToOne(w) == w.skills + w.experience + w.salary + w.location = 100

NonNegative(w) == w.skills >= 0 /\ w.experience >= 0 /\ w.salary >= 0 /\ w.location >= 0

\* C5 as stated: under any weight set whose four weights sum to 1.0,
\* match_score equals the weighted sum of the same result's sub-scores.
C5_WeightedSumAnyWeights ==
    (call.op = "match_candidate_to_job" /\ SumsToOne(weights)) =>
        ret[1].match_score = LinearCombination(weights.skills, weights.experience,
                                               weights.salary, weights.location, ret[1])

\* C5 amended: under any weight set whose four weights are non-negative and sum
\* to 1.0, match_score equals the weighted sum of the same result's sub-scores.
C5_WeightedSumConvexWeights ==
    (call.op = "match_candidate_to_job" /\ SumsToOne(weights) /\ NonNegative(weights)) =>
        ret[1].match_score = LinearCombination(weights.skills, weights.experience,
                                               weights.salary, weights.location, ret[1])

\* a pair evaluated under caller-supplied non-negative weights summing to 1.0
C5_Witness ==
    /\ call.op = "match_candidate_to_job"
    /\ SumsToOne(weights) /\ NonNegative(weights) /\ weights # DEFAULT_WEIGHTS
    /\ ret[1].match_score > 0
    /\ ret[1].skill_match # ret[1].salary_match

\* C6: get_top_matches evaluates every pair of candidates x jobs once, with
\* no threshold filtering, and returns the top_n records of highest
\* match_score in non-increasing order; for top_n >= 0 the result has exactly
\* min(top_n, |candidates| * |jobs|) records and no omitted pair has a
\* strictly higher score than a returned one.
C6_TopMatches ==
    (call.op = "get_top_matches" /\ call.top_n >= 0) =>
        /\ Len(ret) = Min(call.top_n, Len(call.candidates) * Len(call.jobs))
        /\ SortedDescending(ret)
        /\ \A i \in DOMAIN ret :
              \E ci \in DOMAIN call.candidates, ji \in DOMAIN call.jobs :
                  /\ ret[i].candidate_id = call.candidates[ci].candidate_id
                  /\ ret[i].job_id = call.jobs[ji].job_id
                  /\ ret[i].match_score
                         = Alone(weights, call.candidates[ci], call.jobs[ji]).match_score
        /\ \A i, k \in DOMAIN ret :
              i # k => (ret[i].candidate_id # ret[k].candidate_id \/ ret[i].job_id # ret[k].job_id)
        /\ \A ci \in DOMAIN call.candidates, ji \in DOMAIN call.jobs :
              ~Returned(call.candidates[ci], call.jobs[ji]) =>
                  \A i \in DOMAIN ret :
                      Alone(weights, call.candidates[ci], call.jobs[ji]).match_score
                          <= ret[i].match_score

\* the top 3 of 4 pairs, the last of them below 30 and the best of them not
\* the pair enumerated first
C6_Witness ==
    /\ call.op = "get_top_matches"
    /\ call.top_n = 3
    /\ Len(call.candidates) * Len(call.jobs) = 4
    /\ Len(ret) = 3
    /\ ret[1].match_score > ret[3].match_score
    /\ ret[3].match_score < Pct(30)
    /\ ret[3].match_score > 0
    /\ EnumIndex(ret[1]) > 1

\* C7: in the output of match_candidate_to_jobs, match_job_to_candidates and
\* get_top_matches, two results with equal overall score appear in the order
\* in which their pairs were enumerated from the input lists.
C7_TiesKeepInputOrder ==
    call.op \in BatchOps =>
        \A i, k \in DOMAIN ret :
            (i < k /\ ret[i].match_score = ret[k].match_score)
                => EnumIndex(ret[i]) < EnumIndex(ret[k])

\* under the default weights, two results of equal score returned in front of
\* a result that was enumerated before them
C7_Witness ==
    /\ call.op \in BatchOps
    /\ weights = DEFAULT_WEIGHTS
    /\ Len(ret) = 3
    /\ ret[1].match_score = ret[2].match_score
    /\ ret[2].match_score > ret[3].match_score
    /\ EnumIndex(ret[3]) < EnumIndex(ret[1])

\* C8: the MatchResult match_candidate_to_job returns for a (candidate, job,
\* weight set) is the one a newly constructed engine returns, whatever was
\* evaluated before on the same engine.
C8_IndependentOfHistory ==
    call.op = "match_candidate_to_job" =>
        ret[1] = Alone(weights, call.candidates[1], call.jobs[1])

\* a pair evaluated on an engine whose vectorizer had been fitted on the corpus
\* of another pair
C8_Witness ==
    /\ call.op = "match_candidate_to_job"
    /\ call.before = "other"
    /\ ret[1].skill_match > 0
    /\ ret[1].skill_match < Pct(100)

\* C9: when two or more evaluations run concurrently on the same engine, each
\* returns, under every interleaving, the MatchResult it returns when run
\* alone.
C9_SameResultUnderInterleaving ==
    \A t \in DOMAIN threads :
        threads[t].pc = "done" =>
            threads[t].result[1] = Alone(weights, threads[t].candidate[1], threads[t].job[1])

(***************************************************************************)
(* Properties of calculate_skill_match (SpecSkill)                         *)
(***************************************************************************)

SkillDone == scorer.fn = "calculate_skill_match" /\ scorer.pc = "done"

\* C10: calculate_skill_match(S, []) returns score 100 with no matched and no
\* missing skill, for every candidate skill list S, the empty one included.
C10_NothingRequired ==
    (SkillDone /\ scorer.args[2] = <<>>) =>
        /\ scorer.out.score = Pct(100)
        /\ scorer.out.matched = {}
        /\ scorer.out.missing = {}

\* a call with two candidate skills and no required skill
C10_Witness ==
    /\ SkillDone
    /\ Len(scorer.args[1]) = 2
    /\ scorer.args[2] = <<>>

\* the normalized form of each raw skill: trimmed, upper case, then replaced
\* by what the alias table says
ExpectedNormal ==
    "Python" :> "PYTHON" @@ " ml " :> "MACHINE LEARNING"
    @@ "Machine Learning" :> "MACHINE LEARNING" @@ "Deep Learning" :> "DEEP LEARNING"
    @@ "++" :> "++"

ExpectedNormalSet(skills) == {ExpectedNormal[skills[i]] : i \in DOMAIN skills}

\* C11: calculate_skill_match normalizes every candidate and required skill
\* (trim, upper case, alias table) and returns matched = normalized candidate
\* set /\ normalized required set and missing = normalized required set minus
\* normalized candidate set; alias-equivalent skills are matched, not missing.
C11_MatchedAndMissing ==
    SkillDone =>
        LET nc == ExpectedNormalSet(scorer.args[1])
            nj == ExpectedNormalSet(scorer.args[2])
        IN  /\ scorer.out.matched = nc \cap nj
            /\ scorer.out.missing = nj \ nc

\* the candidate writes " ml ", the job requires "Machine Learning" and
\* "Python": the first is matched, only the second is missing
C11_Witness ==
    /\ SkillDone
    /\ scorer.args = <<(<<" ml ">>), (<<"Machine Learning", "Python">>)>>
    /\ scorer.out.matched = {"MACHINE LEARNING"}
    /\ scorer.out.missing = {"PYTHON"}

\* the normalized skills of a list, in its order
ExpectedNormalList(skills) == [i \in DOMAIN skills |-> ExpectedNormal[skills[i]]]

\* the TF-IDF rows of the candidate's skills followed by the required skills,
\* from a vectorizer fitted on exactly these
SimilarityRows(cs, js) ==
    LET cv == CountFitTransform(ExpectedNormalList(cs) \o ExpectedNormalList(js))
    IN  IF cv.raised THEN [raised |-> TRUE, rows |-> <<>>]
        ELSE TfidfTransform(TfidfFit(Unfitted, cv.vocabulary, cv.X), cv.X)

\* the greatest similarity of required skill j to any candidate skill
BestSimilarity(rows, nc, j) ==
    CHOOSE b \in {Cosine(rows[i], rows[nc + j]) : i \in 1..nc} :
        \A i \in 1..nc : Cosine(rows[i], rows[nc + j]) <= b

\* C12: for non-empty required and candidate lists, when the similarity
\* computation succeeds, the skill score is min(100, 0.7*exactPct +
\* 0.3*partialPct), exactPct = |matched| / |required skills| * 100 and
\* partialPct = 100 times the mean over the required skills of the greatest
\* similarity of that required skill to any candidate skill.
C12_SkillScoreFormula ==
    LET cs == scorer.args[1]
        js == scorer.args[2]
        sim == SimilarityRows(cs, js)
    IN  (SkillDone /\ cs # <<>> /\ js # <<>> /\ ~sim.raised) =>
            LET exactPct   == Ratio(100 * Cardinality(scorer.out.matched), Len(js))
                partialPct == (SumSeq([j \in 1..Len(js) |->
                                          BestSimilarity(sim.rows, Len(cs), j)]) * 100)
                                  \div Len(js)
            IN  scorer.out.score = Min(Pct(100), (7 * exactPct + 3 * partialPct) \div 10)

\* one of two required skills matched exactly, the other only similar to a
\* candidate skill: the score is above 0.7 * 50 + 0.3 * 50 and below 100
C12_Witness ==
    /\ SkillDone
    /\ Len(scorer.args[1]) = 2
    /\ Len(scorer.args[2]) = 2
    /\ Cardinality(scorer.out.matched) = 1
    /\ Cardinality(scorer.out.missing) = 1
    /\ scorer.out.score > Pct(50)
    /\ scorer.out.score < Pct(100)

(***************************************************************************)
(* Properties of one evaluation on a new engine (SpecPair)                 *)
(***************************************************************************)

\* does the vectorizer raise on the skills of this pair (empty vocabulary)
SimilarityFails(c, j) ==
    \A s \in Range(c.skills) \cup Range(j.required_skills) :
        TokenTable[normalize_skill(s)] = <<>>

\* |matched| / |required| * 100 of a pair with at least one required skill
ExactPctOf(c, j) ==
    LET nc == {normalize_skill(s) : s \in Range(c.skills)}
        nj == {normalize_skill(s) : s \in Range(j.required_skills)}
    IN  Ratio(100 * Cardinality(nc \cap nj), Len(j.required_skills))

\* C13: if the similarity computation inside calculate_skill_match fails, the
\* call does not raise: the score is the exact-match percentage alone, the
\* matched and missing lists are the ones it returns otherwise, and the
\* enclosing match_candidate_to_job still produces a MatchResult.
C13_FallbackToExact ==
    LET c == call.candidates[1]
        j == call.jobs[1]
    IN  (/\ call.op = "match_candidate_to_job"
         /\ c.skills # <<>> /\ j.required_skills # <<>>
         /\ SimilarityFails(c, j)) =>
            /\ Len(ret) = 1
            /\ ret[1].candidate_id = c.candidate_id /\ ret[1].job_id = j.job_id
            /\ ret[1].skill_match = ExactPctOf(c, j)
            /\ ret[1].matched_skills
                   = {normalize_skill(s) : s \in Range(c.skills)}
                        \cap {normalize_skill(s) : s \in Range(j.required_skills)}
            /\ ret[1].missing_skills
                   = {normalize_skill(s) : s \in Range(j.required_skills)}
                        \ {normalize_skill(s) : s \in Range(c.skills)}
            /\ ret[1].match_score
                   = Clamp(LinearCombination(weights.skills, weights.experience,
                                             weights.salary, weights.location, ret[1]))

\* the vectorizer raised on "++" against "++" and "#": one of the two
\* required skills is matched, the MatchResult has skill_match 50
C13_Witness ==
    /\ call.op = "match_candidate_to_job"
    /\ SimilarityFails(call.candidates[1], call.jobs[1])
    /\ ret[1].skill_match = Pct(50)
    /\ ret[1].matched_skills = {"++"}
    /\ ret[1].missing_skills = {"#"}
    /\ ret[1].match_score > 0

(***************************************************************************)
(* Properties of the scorers called directly (SpecScorers)                 *)
(***************************************************************************)

ScorerDone(fn) == scorer.fn = fn /\ scorer.pc = "done"

\* C14: calculate_experience_match(y, m) is 100 if m = 0 or y >= m (the bonus
\* for excess years never raises it above 100), otherwise
\* max(30, 100 - 15 * (m - y)), for all integers y >= 0 and m >= 0.
C14_ExperienceReference ==
    ScorerDone("calculate_experience_match") =>
        LET y == scorer.args[1]
            m == scorer.args[2]
        IN  scorer.out.score = IF m = 0 \/ y >= m THEN 100 * Unit
                               ELSE Max(30 * Unit, 100 * Unit - 15 * (m - y) * Unit)

\* two years more than the three required: the bonus applies, the score is 100
C14_Witness ==
    /\ ScorerDone("calculate_experience_match")
    /\ scorer.args = <<5, 3>>
    /\ scorer.out.score = Pct(100)

\* C15: for every fixed minimum m >= 0, calculate_experience_match(y, m) is
\* non-decreasing in y.
C15_ExperienceMonotone ==
    ScorerDone("calculate_experience_match") =>
        \A y2 \in Years :
            scorer.args[1] <= y2
                => scorer.out.score <= calculate_experience_match(y2, scorer.args[2])

\* two years short of four: 70, which is less than the score of three years
\* and more than the score of one
C15_Witness ==
    /\ ScorerDone("calculate_experience_match")
    /\ scorer.args = <<2, 4>>
    /\ scorer.out.score = Pct(70)
    /\ calculate_experience_match(1, 4) < scorer.out.score
    /\ scorer.out.score < calculate_experience_match(3, 4)

\* the ordinal of each education text, written out by hand
ExpectedLevel ==
    "High School" :> 1 @@ "Associate" :> 2 @@ "associate" :> 2
    @@ "Bachelor's" :> 3 @@ "Bachelors" :> 3 @@ "BACHELOR'S" :> 3
    @@ "Master's" :> 4 @@ " Master's " :> 4 @@ "Masters" :> 4
    @@ "PhD" :> 5 @@ "PHD" :> 5 @@ "Doctorate" :> 5
    @@ "MBA" :> 3 @@ "Diploma" :> 3 @@ "" :> 3

\* C16: calculate_education_match maps each level text (case-insensitive,
\* trimmed) to its ordinal 1..5 and empty or unrecognized text to 3, and
\* returns 100 when the candidate's ordinal is at least the required one,
\* otherwise max(50, 100 - 25 * (required - candidate)).
C16_EducationReference ==
    ScorerDone("calculate_education_match") =>
        LET cand == ExpectedLevel[scorer.args[1]]
            req  == ExpectedLevel[scorer.args[2]]
        IN  scorer.out.score = IF cand >= req THEN 100 * Unit
                               ELSE Max(50 * Unit, 100 * Unit - 25 * (req - cand) * Unit)

\* an unrecognized text counts as 3, two levels under an upper-case "PHD"
C16_Witness ==
    /\ ScorerDone("calculate_education_match")
    /\ scorer.args = <<"Diploma", "PHD">>
    /\ scorer.out.score = Pct(50)

(***************************************************************************)
(* Properties of the sub-scores in the engine's results (Spec)             *)
(***************************************************************************)

\* C17: the experience score the engine puts in a MatchResult is
\* calculate_combined_experience_match for that pair, which is
\* 0.7 * experience score (years against minimum years)
\* + 0.3 * education score (candidate's education against the required one).
C17_CombinedExperience ==
    call.op \in {"match_candidate_to_job"} \cup OneToManyOps =>
        \A i \in DOMAIN ret, ci \in DOMAIN call.candidates, ji \in DOMAIN call.jobs :
            LET c == call.candidates[ci]
                j == call.jobs[ji]
            IN  (ret[i].candidate_id = c.candidate_id /\ ret[i].job_id = j.job_id) =>
                    ret[i].experience_match
                        = (7 * calculate_experience_match(c.years_experience, j.min_experience)
                           + 3 * calculate_education_match(c.education, j.education_required))
                          \div 10

\* a pair short of both years and education, with two different part scores
C17_Witness ==
    /\ call.op = "match_candidate_to_job"
    /\ LET c   == call.candidates[1]
           j   == call.jobs[1]
           exp == calculate_experience_match(c.years_experience, j.min_experience)
           edu == calculate_education_match(c.education, j.education_required)
       IN  /\ exp < Pct(100)
           /\ edu < Pct(100)
           /\ exp # edu
           /\ Min(exp, edu) < ret[1].experience_match
           /\ ret[1].experience_match < Max(exp, edu)

(***************************************************************************)
(* Properties of the salary and location scorers (SpecScorers)             *)
(***************************************************************************)

\* C18: calculate_salary_match returns exactly 100 whenever the job's range is
\* undisclosed (min = 0 and max = 0, any expectation), or the candidate's
\* expectation is undisclosed (expected = 0, any min and max), or
\* min <= expected <= max.
C18_SalaryFullScore ==
    ScorerDone("calculate_salary_match") =>
        LET e  == scorer.args[1]
            mn == scorer.args[2]
            mx == scorer.args[3]
        IN  ((mn = 0 /\ mx = 0) \/ e = 0 \/ (mn <= e /\ e <= mx))
                => scorer.out.score = 100 * Unit

\* no expectation given against a disclosed range that starts above 0
C18_Witness ==
    /\ ScorerDone("calculate_salary_match")
    /\ scorer.args = <<0, 80000, 120000>>
    /\ scorer.out.score = Pct(100)

\* C19: for a disclosed range 0 <= min <= max (not both 0) and a disclosed
\* expectation outside it, calculate_salary_match returns
\* max(30, 100 - min(pctDiff, 30)) with pctDiff = (min - expected) / mid * 100
\* when expected < min, and max(30, 100 - min(pctDiff, 40)) with
\* pctDiff = (expected - max) / mid * 100 when expected > max, where
\* mid = (min + max) / 2; the result is in [30, 100), strictly below 100.
C19_SalaryOutsideRange ==
    ScorerDone("calculate_salary_match") =>
        LET e  == scorer.args[1]
            mn == scorer.args[2]
            mx == scorer.args[3]
            \* d / ((mn + mx) / 2) * 100, in units
            pctDiff(d) == Ratio(2 * d * 100, mn + mx)
        IN  (mn <= mx /\ mx > 0 /\ e > 0 /\ (e < mn \/ e > mx)) =>
                /\ e < mn => scorer.out.score
                                = Max(30 * Unit, 100 * Unit - Min(pctDiff(mn - e), 30 * Unit))
                /\ e > mx => scorer.out.score
                                = Max(30 * Unit, 100 * Unit - Min(pctDiff(e - mx), 40 * Unit))
                /\ 30 * Unit <= scorer.out.score
                /\ scorer.out.score < 100 * Unit

\* 150000 expected against 80000..120000: 30 points above the range, score 70
C19_Witness ==
    /\ ScorerDone("calculate_salary_match")
    /\ scorer.args = <<150000, 80000, 120000>>
    /\ scorer.out.score = Pct(70)
\* the location texts that contain "remote" in some letter case
MentionsRemote == {"Remote", "remote", "Remote (US)", "Austin, TX or Remote"}

\* C20: when the job is remote (is_remote flag true, or the job's location
\* text contains "REMOTE" in any letter case), calculate_location_match returns
\* 100 if the candidate's location text contains "REMOTE" and 80 otherwise,
\* regardless of any city, state or region in either text.
C20_RemoteJob ==
    ScorerDone("calculate_location_match") =>
        LET candidate_location == scorer.args[1]
            job_location       == scorer.args[2]
            is_remote_job      == scorer.args[3]
        IN  (is_remote_job \/ job_location \in MentionsRemote) =>
                scorer.out.score = IF candidate_location \in MentionsRemote
                                   THEN 100 * Unit ELSE 80 * Unit

\* candidate and job in the same city and state, the job's text offering
\* remote work: 80, not the 100 of a city match
C20_Witness ==
    /\ ScorerDone("calculate_location_match")
    /\ scorer.args = <<"Austin, TX", "Austin, TX or Remote", FALSE>>
    /\ scorer.out.score = Pct(80)

\* city, state and region of each location text that does not mention remote
\* work, written out by hand
ExpectedPlace ==
    "" :> <<"", "", "">> @@ "  " :> <<"", "", "">>
    @@ "San Francisco, CA" :> <<"SAN FRANCISCO", "CALIFORNIA", "BAY AREA">>
    @@ "Palo Alto, CA" :> <<"PALO ALTO", "CALIFORNIA", "BAY AREA">>
    @@ "Los Angeles, CA" :> <<"LOS ANGELES", "CALIFORNIA", "LOS ANGELES">>
    @@ "New York, NY" :> <<"NEW YORK", "NEW YORK", "NEW YORK METRO">>
    @@ "NEW YORK, NY" :> <<"NEW YORK", "NEW YORK", "NEW YORK METRO">>
    @@ "Jersey City, NJ" :> <<"JERSEY CITY", "NEW JERSEY", "NEW YORK METRO">>
    @@ "Austin, TX" :> <<"AUSTIN", "TEXAS", "AUSTIN">>
    @@ "Boston, MA" :> <<"BOSTON", "MASSACHUSETTS", "BOSTON">>
    @@ "Seattle" :> <<"SEATTLE", "", "SEATTLE">>
    @@ "California" :> <<"CALIFORNIA", "", "CALIFORNIA">>
    @@ "ca" :> <<"", "CALIFORNIA", "CALIFORNIA">>

\* the job neither flagged remote nor mentioning remote work in its text
NonRemoteJob == ~scorer.args[3] /\ scorer.args[2] \notin MentionsRemote

\* do the two texts name the same non-empty city (k = 1), state (2), region (3)
SamePlace(k, a, b) == ExpectedPlace[a][k] # "" /\ ExpectedPlace[a][k] = ExpectedPlace[b][k]

\* C21: for a non-remote job, calculate_location_match applies the tiers in
\* order and the first that matches decides: candidate text contains REMOTE
\* -> 60; else parsed cities equal and non-empty -> 100; else parsed states
\* (abbreviations expanded) equal and non-empty -> 75; else parsed regions
\* equal and non-empty -> 70; else 30.  The result is one of 30, 60, 70, 75,
\* 100.
C21_LocationTiers ==
    (ScorerDone("calculate_location_match") /\ NonRemoteJob) =>
        LET c == scorer.args[1]
            j == scorer.args[2]
        IN  /\ scorer.out.score =
                   IF c \in MentionsRemote THEN 60 * Unit
                   ELSE IF SamePlace(1, c, j) THEN 100 * Unit
                   ELSE IF SamePlace(2, c, j) THEN 75 * Unit
                   ELSE IF SamePlace(3, c, j) THEN 70 * Unit
                   ELSE 30 * Unit
            /\ scorer.out.score \in {30 * Unit, 60 * Unit, 70 * Unit, 75 * Unit, 100 * Unit}

\* two cities of one state and one region: the state tier decides, 75
C21_Witness ==
    /\ ScorerDone("calculate_location_match")
    /\ scorer.args = <<"San Francisco, CA", "Palo Alto, CA", FALSE>>
    /\ scorer.out.score = Pct(75)

\* the location texts that are empty or hold white space only
BlankTexts == {"", "  "}

\* C26: an empty or whitespace-only location text parses to empty city, state
\* and region with is_remote false, without raising; when the candidate's or
\* the job's location text is empty and neither side is remote,
\* calculate_location_match returns the lowest tier, 30.
C26_EmptyLocation ==
    ScorerDone("calculate_location_match") =>
        LET c == scorer.args[1]
            j == scorer.args[2]
        IN  /\ \A t \in {c, j} \cap BlankTexts :
                  parse_location(t) = [city |-> "", state |-> "", is_remote |-> FALSE,
                                       region |-> ""]
            /\ ((c \in BlankTexts \/ j \in BlankTexts) /\ NonRemoteJob /\ c \notin MentionsRemote)
                   => scorer.out.score = 30 * Unit

\* a job in Austin and a candidate whose location is two blanks
C26_Witness ==
    /\ ScorerDone("calculate_location_match")
    /\ scorer.args = <<"  ", "Austin, TX", FALSE>>
    /\ scorer.out.score = Pct(30)

\* C25: get_location_details derives its match_type from the same tier logic
\* as the numeric score: 'Remote' occurs only with score 80 or 100,
\* 'Same City' only with 100, 'Same State' only with 75, 'Same Region' only
\* with 70, and 'Different Location' only with 30 or 60.
C25_MatchTypeAgreesWithScore ==
    ScorerDone("get_location_details") =>
        LET t == scorer.out.match_type
            v == scorer.out.match_score
        IN  /\ t = "Remote" => v \in {80 * Unit, 100 * Unit}
            /\ t = "Same City" => v = 100 * Unit
            /\ t = "Same State" => v = 75 * Unit
            /\ t = "Same Region" => v = 70 * Unit
            /\ t = "Different Location" => v \in {30 * Unit, 60 * Unit}

\* the labels agree with the score whenever both texts hold a city and a
\* state and the candidate's text does not mention remote work
HasCityAndState(t) == t \notin MentionsRemote /\ ExpectedPlace[t][1] # "" /\ ExpectedPlace[t][2] # ""

C25_AgreesForFullAddresses ==
    (/\ ScorerDone("get_location_details")
     /\ (NonRemoteJob => HasCityAndState(scorer.args[1]) /\ HasCityAndState(scorer.args[2])))
        => C25_MatchTypeAgreesWithScore

(***************************************************************************)
(* Properties of get_match_statistics and get_match_level (SpecStatistics) *)
(***************************************************************************)

\* the score of a result in hundredths, as it was written
HundredthsOf(m) == CHOOSE h \in ScoreHundredths : ScoredResult(h) = m

\* the number of results of the list that satisfy P
CountWhere(matches, P(_)) == Cardinality({i \in DOMAIN matches : P(matches[i])})

\* the four tiers, on hundredths
IsExcellent(m) == HundredthsOf(m) >= 7000

IsGood(m) == 5000 <= HundredthsOf(m) /\ HundredthsOf(m) < 7000

IsFair(m) == 3000 <= HundredthsOf(m) /\ HundredthsOf(m) < 5000

IsLow(m) == HundredthsOf(m) < 3000

\* count = len(matches), and the tier counts put each match into exactly
\* one of Excellent, Good, Fair, Low, so they sum to count
CountAndTiers ==
    LET matches == scorer.args[1]
        out     == scorer.out
    IN  /\ out.count = Len(matches)
        /\ out.excellent_matches = CountWhere(matches, IsExcellent)
        /\ out.good_matches = CountWhere(matches, IsGood)
        /\ out.fair_matches = CountWhere(matches, IsFair)
        /\ out.low_matches = CountWhere(matches, IsLow)
        /\ out.excellent_matches + out.good_matches + out.fair_matches + out.low_matches
               = out.count

\* C22: get_match_statistics(matches) on a non-empty list returns
\* count = len(matches), min_score <= avg_score <= max_score, and tier counts
\* that classify each match into exactly one of Excellent (score >= 70), Good
\* (50 <= score < 70), Fair (30 <= score < 50), Low (score < 30), so the four
\* tier counts sum to count.
C22_Statistics ==
    (ScorerDone("get_match_statistics") /\ scorer.args[1] # <<>>) =>
        /\ CountAndTiers
        /\ BigLeq(scorer.out.min_score, scorer.out.avg_score)
        /\ BigLeq(scorer.out.avg_score, scorer.out.max_score)

\* what holds of the statistics of every non-empty list: the count, the tiers
\* and min_score <= max_score
C22_CountTiersAndExtremes ==
    (ScorerDone("get_match_statistics") /\ scorer.args[1] # <<>>) =>
        /\ CountAndTiers
        /\ BigLeq(scorer.out.min_score, scorer.out.max_score)

\* C23: the match-level label of a MatchResult uses the same thresholds as the
\* statistics tiers: for any list of results, the number whose
\* get_match_level() is Excellent / Good / Fair / Low equals the
\* excellent_matches / good_matches / fair_matches / low_matches count that
\* get_match_statistics returns for that list.
C23_LevelsAgreeWithTiers ==
    ScorerDone("get_match_statistics") =>
        LET matches == scorer.args[1]
            Labelled(level) ==
                Cardinality({i \in DOMAIN matches : get_match_level(matches[i]) = level})
        IN  /\ Labelled("Excellent Match") = scorer.out.excellent_matches
            /\ Labelled("Good Match") = scorer.out.good_matches
            /\ Labelled("Fair Match") = scorer.out.fair_matches
            /\ Labelled("Low Match") = scorer.out.low_matches

\* three results, two of them on a limit (70 and 30) and one just under 70
C23_Witness ==
    /\ ScorerDone("get_match_statistics")
    /\ scorer.args[1] = <<ScoredResult(7000), ScoredResult(6999), ScoredResult(3000)>>
    /\ scorer.out.excellent_matches = 1
    /\ scorer.out.good_matches = 1
    /\ scorer.out.fair_matches = 1
    /\ scorer.out.low_matches = 0

(***************************************************************************)
(* Properties of the one-to-many operations (Spec)                         *)
(***************************************************************************)

\* C24: every MatchResult returned by match_candidate_to_jobs(c, jobs) carries
\* c's candidate_id and the job_id of an element of jobs, every MatchResult
\* returned by match_job_to_candidates(j, candidates) carries j's job_id and
\* the candidate_id of an element of candidates, and for any pair (c, j) the
\* result obtained through either direction has the same scores as
\* match_candidate_to_job(c, j).
C24_IdsAndScoresOfOneToMany ==
    /\ call.op = "match_candidate_to_jobs" =>
          \A i \in DOMAIN ret :
              /\ ret[i].candidate_id = call.candidates[1].candidate_id
              /\ \E ji \in DOMAIN call.jobs :
                    /\ ret[i].job_id = call.jobs[ji].job_id
                    /\ ret[i] = Alone(weights, call.candidates[1], call.jobs[ji])
    /\ call.op = "match_job_to_candidates" =>
          \A i \in DOMAIN ret :
              /\ ret[i].job_id = call.jobs[1].job_id
              /\ \E ci \in DOMAIN call.candidates :
                    /\ ret[i].candidate_id = call.candidates[ci].candidate_id
                    /\ ret[i] = Alone(weights, call.candidates[ci], call.jobs[1])

\* a job matched to three candidates, two of them returned with different
\* scores
C24_Witness ==
    /\ call.op = "match_job_to_candidates"
    /\ Len(call.candidates) = 3
    /\ Len(ret) = 2
    /\ ret[1].candidate_id # ret[2].candidate_id
    /\ ret[1].match_score # ret[2].match_score

(***************************************************************************)
(* Further properties of calculate_skill_match (SpecSkill)                 *)
(***************************************************************************)

\* C28: if every required skill of the job is, after normalization, among the
\* candidate's normalized skills, then calculate_skill_match returns an empty
\* missing list and a score of exactly 100, for every required-skill list,
\* including ones that repeat a skill or contain two alias-equivalent entries.
C28_AllRequiredPresent ==
    (SkillDone /\ ExpectedNormalSet(scorer.args[2]) \subseteq ExpectedNormalSet(scorer.args[1])) =>
        /\ scorer.out.missing = {}
        /\ scorer.out.score = 100 * Unit

\* the skills of the model that hold a word character
Worded == RawSkills \ {"++"}

\* the same for required skills that are pairwise different after
\* normalization and, like the candidate's, hold a word character
C28_AllRequiredPresentOnce ==
    (/\ SkillDone
     /\ ExpectedNormalSet(scorer.args[2]) \subseteq ExpectedNormalSet(scorer.args[1])
     /\ Cardinality(ExpectedNormalSet(scorer.args[2])) = Len(scorer.args[2])
     /\ Range(scorer.args[1]) \cup Range(scorer.args[2]) \subseteq Worded) =>
        /\ scorer.out.missing = {}
        /\ scorer.out.score = 100 * Unit

\* C29: for every call of calculate_skill_match the returned matched and
\* missing lists are disjoint, contain no duplicates, and their union is the
\* set of normalized required skills; and normalize_skill is idempotent
\* (normalizing a normalized skill returns it unchanged), so no matched or
\* missing entry is itself an un-normalized alias.  (matched and missing are
\* built from sets; the model holds them as sets.)
C29_MatchedMissingPartition ==
    SkillDone =>
        /\ scorer.out.matched \cap scorer.out.missing = {}
        /\ scorer.out.matched \cup scorer.out.missing = ExpectedNormalSet(scorer.args[2])
        /\ \A e \in scorer.out.matched \cup scorer.out.missing : normalize_skill(e) = e
        /\ \A s \in Range(scorer.args[1]) \cup Range(scorer.args[2]) :
              normalize_skill(normalize_skill(s)) = normalize_skill(s)
        /\ \A k \in DOMAIN SKILL_ALIASES :
              /\ normalize_skill(normalize_skill(k)) = normalize_skill(k)
              /\ normalize_skill(SKILL_ALIASES[k]) = SKILL_ALIASES[k]

\* a candidate who wrote " ml " against a job asking for Machine Learning and
\* Python: one matched under its full name, one missing
C29_Witness ==
    /\ SkillDone
    /\ scorer.args = <<<<" ml ">>, <<"Machine Learning", "Python">>>>
    /\ scorer.out.matched = {"MACHINE LEARNING"}
    /\ scorer.out.missing = {"PYTHON"}

(***************************************************************************)
(* Further properties of calculate_salary_match (SpecScorers)              *)
(***************************************************************************)

\* C27: salary scoring is asymmetric against overshooting: for the same
\* disclosed range and the same positive gap d, the score for
\* expected = max + d is never higher than the score for expected = min - d,
\* and it is strictly lower when the gap exceeds 30% of the midpoint.
C27_OvershootPenalizedMore ==
    ScorerDone("calculate_salary_match") =>
        LET e  == scorer.args[1]
            mn == scorer.args[2]
            mx == scorer.args[3]
            d  == e - mx
        IN  (mn <= mx /\ mx > 0 /\ d > 0) =>
                /\ scorer.out.score <= calculate_salary_match(mn - d, mn, mx)
                /\ 100 * d * 2 > 30 * (mn + mx)
                       => scorer.out.score < calculate_salary_match(mn - d, mn, mx)

\* 40000 above 50000..90000 scores 60, 40000 below it scores 70
C27_Witness ==
    /\ ScorerDone("calculate_salary_match")
    /\ scorer.args = <<130000, 50000, 90000>>
    /\ scorer.out.score = Pct(60)
    /\ calculate_salary_match(10000, 50000, 90000) = Pct(70)

\* C30: for all non-negative expected, min and max with min <= max,
\* calculate_salary_match never returns less than 60: at least 70 when
\* expected is below the range and at least 60 when above it, so the final
\* floor of 30 never determines the result.
C30_SalaryAtLeastSixty ==
    ScorerDone("calculate_salary_match") =>
        LET e  == scorer.args[1]
            mn == scorer.args[2]
            mx == scorer.args[3]
        IN  mn <= mx =>
                /\ scorer.out.score >= 60 * Unit
                /\ e < mn => scorer.out.score >= 70 * Unit
                /\ e > mx => scorer.out.score >= 60 * Unit

\* 150000 expected against 10000..20000: nine times the midpoint above the
\* range, and the score is 60
C30_Witness ==
    /\ ScorerDone("calculate_salary_match")
    /\ scorer.args = <<150000, 10000, 20000>>
    /\ scorer.out.score = Pct(60)

====
